---- MODULE Spec2Model ----
(***************************************************************************)
(* bfc.rs: instruction tree (parser.rs AstNode), peephole optimizer        *)
(* (optimizer.rs) and tree-walking interpreter (interpreter.rs) with its   *)
(* two run modes, driven the way lib.rs (compile_and_run) and main.rs      *)
(* drive them.                                                             *)
(***************************************************************************)
EXTENDS Integers, Sequences, FiniteSets, TLC

(***************************************************************************)
(* Bounds of the model.                                                    *)
(***************************************************************************)
\* number of AstNode nodes below the root of an enumerated tree
MaxNodes == 2
\* the tape length Interpreter::new gives the tape (30000 in the source,
\* scaled down; `+[>+]` walks to the right end whatever the length)
DEFAULT_TAPE_SIZE == 8
\* instructions dispatched in one run before the model stops following it
MaxSteps == 300
\* calls of interpret_with_state one host session makes
MaxRuns == 2
\* bytes 0..MaxStdinByte can arrive on stdin in plain mode
MaxStdinByte == 1
\* breakpoints that can be armed: instruction counts 1..MaxBreakCount, cell
\* values 0..MaxBreakValue, loop depths 0..MaxBreakDepth
MaxBreakCount == 2
MaxBreakValue == 1
MaxBreakDepth == 1
\* breakpoints armed together on one Interpreter
MaxArmed == 1

\* number of nodes below the root of a tree handed to the optimizer alone
MaxOptNodes == 4
\* instructions of one call whose dispatch order is kept for comparison
MaxTrace == 8
\* the longest token sequence handed to the parser
MaxTokens == 5

\* u8 cells: 2^8 values
U8 == 256

(***************************************************************************)
(* parser.rs: AstNode.  Every node is a record of one shape so that any    *)
(* two nodes can be compared.                                              *)
(***************************************************************************)
Node(kind, count, instructions) == [op |-> kind, n |-> count, body |-> instructions]
Program(instructions) == Node("Program", 0, instructions)
Loop(instructions) == Node("Loop", 0, instructions)
Increment == Node("Increment", 0, <<>>)
Decrement == Node("Decrement", 0, <<>>)
MoveRight == Node("MoveRight", 0, <<>>)
MoveLeft == Node("MoveLeft", 0, <<>>)
Input == Node("Input", 0, <<>>)
Output == Node("Output", 0, <<>>)
Add(count) == Node("Add", count, <<>>)
Sub(count) == Node("Sub", count, <<>>)

\* the six canonical instructions without a body
Leaves == {Increment, Decrement, MoveRight, MoveLeft, Input, Output}

\* all instruction sequences over the eight canonical instructions (six leaves
\* and Loop, closed by its bracket) that hold exactly k nodes, loops nested
\* to any depth
RECURSIVE Blocks(_)
Blocks(k) ==
    IF k = 0 THEN { <<>> }
    ELSE { <<i>> \o r : i \in Leaves, r \in Blocks(k - 1) }
         \cup UNION { { <<Loop(b)>> \o r : b \in Blocks(j), r \in Blocks(k - 1 - j) }
                      : j \in 0..(k - 1) }

CanonicalTrees == { Program(b) : b \in UNION { Blocks(k) : k \in 0..MaxNodes } }

(***************************************************************************)
(* lexer.rs and parser.rs.  A Token is the name of its variant; the source *)
(* text is a sequence of one-character strings.                            *)
(***************************************************************************)
\* Lexer::next_token's `match ch`: Some(token) as {token}, None as {}
token_of(ch) ==
    CASE ch = "+" -> {"Increment"}
      [] ch = "-" -> {"Decrement"}
      [] ch = "<" -> {"DecrementPtr"}
      [] ch = ">" -> {"IncrementPtr"}
      [] ch = "[" -> {"LoopStart"}
      [] ch = "]" -> {"LoopEnd"}
      [] ch = "," -> {"Input"}
      [] ch = "." -> {"Output"}
      [] OTHER -> {}

\* Lexer::tokenize: the tokens of the command characters, in order
RECURSIVE tokenize(_)
tokenize(input) ==
    IF input = <<>> THEN <<>>
    ELSE LET token == token_of(Head(input)) IN
         IF token = {} THEN tokenize(Tail(input))
         ELSE <<CHOOSE t \in token : TRUE>> \o tokenize(Tail(input))

\* looking_for_loop_end: `depth > 0` after the `for i in 0..self.position`
RECURSIVE bracket_depth(_, _)
bracket_depth(tokens, position) ==
    IF position = 0 THEN 0
    ELSE bracket_depth(tokens, position - 1)
         + (CASE tokens[position] = "LoopStart" -> 1
              [] tokens[position] = "LoopEnd" -> 0 - 1
              [] OTHER -> 0)
looking_for_loop_end(tokens, position) == bracket_depth(tokens, position) > 0

\* the node parse_program pushes for a token that is no bracket
node_of(token) ==
    CASE token = "Increment" -> Increment
      [] token = "Decrement" -> Decrement
      [] token = "IncrementPtr" -> MoveRight
      [] token = "DecrementPtr" -> MoveLeft
      [] token = "Input" -> Input
      [] token = "Output" -> Output

\* what a call of parse_program returns, with self.position as it leaves it
Parsed(node, position) == [ok |-> TRUE, node |-> node, error |-> "", position |-> position]
Failed(msg, position) == [ok |-> FALSE, node |-> Program(<<>>), error |-> msg, position |-> position]

\* parse_program from the test of its `while` on, with self.position (0-based)
\* and the `instructions` pushed so far
RECURSIVE parse_program(_, _, _)
parse_program(tokens, position, instructions) ==
    IF position >= Len(tokens)
    THEN IF looking_for_loop_end(tokens, position)
         THEN Failed("Unclosed loop - missing ]", position)
         ELSE Parsed(Program(instructions), position)
    ELSE LET token == tokens[position + 1] IN
         IF token = "LoopStart"
         THEN LET loop_body == parse_program(tokens, position + 1, <<>>) IN
              IF loop_body.ok
              THEN parse_program(tokens, loop_body.position,
                                 Append(instructions, Loop(loop_body.node.body)))
              ELSE loop_body
         ELSE IF token = "LoopEnd"
         THEN Parsed(Program(instructions), position + 1)
         ELSE parse_program(tokens, position + 1, Append(instructions, node_of(token)))

\* Parser::new(tokens).parse()
parse(tokens) == parse_program(tokens, 0, <<>>)

(***************************************************************************)
(* codegen.rs.  The emitted program is kept as the sequence of its         *)
(* statements, each the text generate_instruction writes; a `while` holds  *)
(* the statements between its braces.                                      *)
(***************************************************************************)
Statement(text, block) == [text |-> text, block |-> block]
CellAddOne == "memory[pointer] = memory[pointer].wrapping_add(1);"
CellSubOne == "memory[pointer] = memory[pointer].wrapping_sub(1);"
PointerAddOne == "pointer += 1;"
PointerSubOne == "pointer -= 1;"
PrintCell == "print!(\"{}\", memory[pointer] as char);"
ReadCell == "memory[pointer] = std::io::stdin().bytes().next().unwrap().unwrap();"
WhileCell == "while memory[pointer] != 0 {"

\* CodeGenerator::generate_instruction: the statements emitted for one node;
\* its last arm, `_ => String::new()`, emits nothing
RECURSIVE generate_instruction(_)
generate_instructions(instructions) ==
    LET RECURSIVE emit(_)
        emit(k) == IF k > Len(instructions) THEN <<>>
                   ELSE generate_instruction(instructions[k]) \o emit(k + 1)
    IN  emit(1)
generate_instruction(instruction) ==
    CASE instruction.op = "Increment" -> <<Statement(CellAddOne, <<>>)>>
      [] instruction.op = "Decrement" -> <<Statement(CellSubOne, <<>>)>>
      [] instruction.op = "MoveRight" -> <<Statement(PointerAddOne, <<>>)>>
      [] instruction.op = "MoveLeft" -> <<Statement(PointerSubOne, <<>>)>>
      [] instruction.op = "Output" -> <<Statement(PrintCell, <<>>)>>
      [] instruction.op = "Input" -> <<Statement(ReadCell, <<>>)>>
      [] instruction.op = "Loop" ->
             <<Statement(WhileCell, generate_instructions(instruction.body))>>
      [] OTHER -> <<>>

\* CodeGenerator::generate: Some(statements of main) as {statements}, the
\* panic on a root that is no Program as {}
generate(t) ==
    IF t.op = "Program" THEN {generate_instructions(t.body)} ELSE {}

\* what an emitted statement without a block does to the emitted program's
\* `memory` (a Vec<u8>) and `pointer`: the states it can leave, none when it
\* panics or leaves the tape (`pointer -= 1` at 0); the byte read is any u8
statement_effects(text, mem, ptr) ==
    CASE text = CellAddOne -> { <<[mem EXCEPT ![ptr] = (@ + 1) % U8], ptr>> }
      [] text = CellSubOne -> { <<[mem EXCEPT ![ptr] = (@ + U8 - 1) % U8], ptr>> }
      [] text = PointerAddOne -> { <<mem, ptr + 1>> }
      [] text = PointerSubOne -> IF ptr = 0 THEN {} ELSE { <<mem, ptr - 1>> }
      [] text = PrintCell -> { <<mem, ptr>> }
      [] text = ReadCell -> { <<[mem EXCEPT ![ptr] = byte], ptr>> : byte \in 0..(U8 - 1) }

\* the states a sequence of such statements can leave
RECURSIVE statements_effects(_, _, _)
statements_effects(statements, mem, ptr) ==
    IF statements = <<>> THEN { <<mem, ptr>> }
    ELSE UNION { statements_effects(Tail(statements), after[1], after[2])
                 : after \in statement_effects(Head(statements).text, mem, ptr) }

\* the test of an emitted `while`
while_continues(statement, mem, ptr) == statement.text = WhileCell /\ mem[ptr] # 0

(***************************************************************************)
(* optimizer.rs                                                            *)
(***************************************************************************)
\* count_run that takes Increment and Decrement for one kind
RECURSIVE count_run_any(_, _, _, _)
count_run_any(instructions, i, count, kind) ==
    IF i + count < Len(instructions)
       /\ instructions[i + count + 1].op \in {"Increment", "Decrement"}
    THEN count_run_any(instructions, i, count + 1, kind)
    ELSE count

\* the inner `while i + count < instructions.len()` of either arm: the length
\* of the run of `kind` nodes that starts at 0-based index i (source indices
\* are 0-based, sequences here 1-based: instructions[i] is instructions[i + 1])
RECURSIVE count_run(_, _, _, _)
count_run(instructions, i, count, kind) ==
    IF i + count < Len(instructions) /\ instructions[i + count + 1].op = kind
    THEN count_run(instructions, i, count + 1, kind)
    ELSE count

\* folded with the counted node one short of the run
folded_one_short(instructions, i, count, kind) ==
    IF count > 1 THEN Node(kind, count - 1, <<>>) ELSE instructions[i + 1]

\* folded with the threshold at three: a run of two is pushed as its first node
folded_from_three(instructions, i, count, kind) ==
    IF count > 2 THEN Node(kind, count, <<>>) ELSE instructions[i + 1]

\* the node pushed for a run of `count` Increment (kind "Add") or Decrement
\* (kind "Sub") nodes starting at index i
folded(instructions, i, count, kind) ==
    IF count > 1 THEN Node(kind, count, <<>>) ELSE instructions[i + 1]

\* the outer `while i < instructions.len()` with its accumulator `optimized`
RECURSIVE optimize_while(_, _, _)
optimize_while(instructions, i, optimized) ==
    IF ~(i < Len(instructions)) THEN optimized
    ELSE LET cur == instructions[i + 1] IN
         IF cur.op = "Increment"
         THEN LET count == count_run(instructions, i, 1, "Increment") IN
              optimize_while(instructions, i + count,
                             Append(optimized, folded(instructions, i, count, "Add")))
         ELSE IF cur.op = "Decrement"
         THEN LET count == count_run(instructions, i, 1, "Decrement") IN
              optimize_while(instructions, i + count,
                             Append(optimized, folded(instructions, i, count, "Sub")))
         ELSE optimize_while(instructions, i + 1, Append(optimized, cur))

optimize_instructions(instructions) == optimize_while(instructions, 0, <<>>)

optimize(tree) ==
    IF tree.op = "Program" THEN Program(optimize_instructions(tree.body)) ELSE tree

(***************************************************************************)
(* interpreter.rs: the Interpreter's fields, the call stack of             *)
(* execute_instruction / execute_instruction_capture, and what the caller  *)
(* (lib.rs compile_and_run, main.rs main) holds.                           *)
(***************************************************************************)
VARIABLES
    tokens,             \* the Vec<Token> handed to parse, <<>> when the tree was built by hand
    parsed,             \* what parse returned: {} before the call, {result} after
    ast,                \* the parsed tree the caller holds
    tree,               \* the `ast` argument of the run in progress (or of the last run)
    optimized,          \* lib.rs:47 `optimized`: {} before the optimizer ran, {tree} after
    memory,             \* Interpreter.memory, indexed 0..tape_size-1
    pointer,            \* Interpreter.pointer
    tape_size,          \* Interpreter.tape_size
    instruction_count,  \* Interpreter.instruction_count
    loop_depth,         \* Interpreter.loop_depth
    instruction_counts, \* Interpreter.instruction_counts, keyed by the node (its {:?} text)
    loop_iterations,    \* Interpreter.loop_iterations: depth -> iterations
    breakpoints,        \* Interpreter.breakpoints; an Option is {} (None) or {x} (Some(x))
    debug,              \* Interpreter.debug
    step_by_step,       \* Interpreter.step_by_step
    mode,               \* "none", "plain" (run) or "capture" (run_and_capture_output)
    status,             \* "Idle", "New", "Built", "Running", "Paused" (a breakpoint's
                        \* read_line), "Stepping" (debug_step's read_line), "Ok", "Err",
                        \* "Panic"
    error,              \* the Err(String) the run returned, "" when none
    output,             \* run_and_capture_output's `output`, one char (code point) per element
    stdout,             \* the chars plain mode's Output arm printed
    stack,              \* activations: the `for` position in the root and in each open Loop
    results,            \* what run_and_capture_output calls have returned so far, in order
    runs                \* one record per call of run / run_and_capture_output, in order:
                        \* what the Interpreter held at the call, what the console
                        \* exchanged during it, and what it held at the return

interp == <<memory, pointer, tape_size, instruction_count, loop_depth,
            instruction_counts, loop_iterations, breakpoints, debug, step_by_step>>
vars == <<tokens, parsed, ast, tree, optimized, memory, pointer, tape_size, instruction_count, loop_depth,
          instruction_counts, loop_iterations, breakpoints, debug, step_by_step,
          mode, status, error, output, stdout, stack, results, runs>>

\* trees whose shape the engine rejects: a root that is no Program, a Program
\* node inside a sequence or a loop body
MalformedTrees ==
    { Loop(<<Increment>>), Increment,
      Program(<<Increment, Program(<<Increment>>), Increment>>),
      Program(<<Increment, Loop(<<MoveRight, Program(<<>>)>>)>>) }

\* trees that already hold counted nodes (Interpreter::run accepts them, see
\* test_debug_mode), with counts on both sides of the u8 range
Counts == {1, 2, 255, 256, 257, 511, 512}
CountedTrees ==
    { Program(<<Add(v), i>>) : v \in 0..(U8 - 1),
                               i \in {Increment, Decrement} \cup { Add(k) : k \in Counts }
                                                             \cup { Sub(k) : k \in Counts } }

\* trees of the spec's and the tests' examples that MaxNodes does not reach
ExampleTrees ==
    { Program(<<Increment, Increment, MoveRight, Decrement, Decrement>>),
      Program(<<Increment, Increment, Loop(<<Decrement, Decrement>>), Output>>),
      Program(<<Increment, Loop(<<Loop(<<Increment, Increment, MoveLeft>>)>>)>>),
      Program(<<Increment, Loop(<<MoveRight, Increment>>)>>),
      Program(<<Increment, Loop(<<Loop(<<Decrement>>)>>)>>),
      Program(<<Output, Increment, Output>>),
      Program(<<Increment, Loop(<<Decrement>>), Increment, Loop(<<Decrement>>)>>) }

Trees == CanonicalTrees \cup MalformedTrees \cup CountedTrees \cup ExampleTrees

\* Interpreter::new
NewMemory == [i \in 0..(DEFAULT_TAPE_SIZE - 1) |-> 0]
NoBreakpoints == [instruction_count |-> {}, memory_value |-> {}, loop_depth |-> {}]
\* a constructor that hands back the tape and pointer of the Interpreter before it
new_keeps_tape ==
    /\ UNCHANGED <<memory, pointer>>
    /\ tape_size' = DEFAULT_TAPE_SIZE
    /\ instruction_count' = 0
    /\ loop_depth' = 0
    /\ instruction_counts' = <<>>
    /\ loop_iterations' = <<>>
    /\ breakpoints' = NoBreakpoints
    /\ debug' = FALSE
    /\ step_by_step' = FALSE
new ==
    /\ memory' = NewMemory
    /\ pointer' = 0
    /\ tape_size' = DEFAULT_TAPE_SIZE
    /\ instruction_count' = 0
    /\ loop_depth' = 0
    /\ instruction_counts' = <<>>
    /\ loop_iterations' = <<>>
    /\ breakpoints' = NoBreakpoints
    /\ debug' = FALSE
    /\ step_by_step' = FALSE

\* the caller holds a parsed tree; nothing has run yet
Start ==
    /\ parsed = {}
    /\ tree = ast
    /\ optimized = {}
    /\ memory = NewMemory
    /\ pointer = 0
    /\ tape_size = DEFAULT_TAPE_SIZE
    /\ instruction_count = 0
    /\ loop_depth = 0
    /\ instruction_counts = <<>>
    /\ loop_iterations = <<>>
    /\ breakpoints = NoBreakpoints
    /\ debug = FALSE
    /\ step_by_step = FALSE
    /\ mode = "none"
    /\ status = "Idle"
    /\ error = ""
    /\ output = <<>>
    /\ stdout = <<>>
    /\ stack = <<>>
    /\ results = <<>>
    /\ runs = <<>>

Init == ast \in Trees /\ tokens = <<>> /\ Start

\* a cast that saturates instead of truncating
as_u8_saturating(n) == IF n > U8 - 1 THEN U8 - 1 ELSE n

\* u8::wrapping_add, u8::wrapping_sub, and the cast `n as u8` of a usize
wrapping_add(a, b) == (a + b) % U8
wrapping_sub(a, b) == (a - b + U8) % U8
as_u8(n) == n % U8

\* an activation: the sequence its `for` walks, the 1-based position of the next
\* element, and (for a Loop) the local `loop_count`.  idx = Len(instrs) + 1 in a
\* Loop's activation stands at the `while` test.
Frame(instructions, i, count) == [instrs |-> instructions, idx |-> i, loop_count |-> count]
Top == stack[Len(stack)]
AtInstruction == stack # <<>> /\ Top.idx <= Len(Top.instrs)
Current == Top.instrs[Top.idx]
\* the `for` of the top activation moves on to its next element
Advance(stk) == [stk EXCEPT ![Len(stk)].idx = @ + 1]

\* what the caller of interpret_with_state sees of a finished run, with the
\* tape and pointer the Interpreter is left with
Snapshot(t, outcome, msg, out, mem, ptr) ==
    [tree |-> t, outcome |-> outcome, error |-> msg, output |-> out,
     memory |-> mem, pointer |-> ptr]

\* the record `runs` opens at a call: the tree and mode, what the Interpreter
\* holds at that moment, and nothing exchanged with the console yet
Begun(t, m, mem, ptr, count, depth, bps, dbg, step) ==
    [tree |-> t, mode |-> m,
     start |-> [memory |-> mem, pointer |-> ptr, instruction_count |-> count,
                loop_depth |-> depth],
     breakpoints |-> bps, debug |-> dbg, step_by_step |-> step,
     stdin |-> <<>>, pauses |-> <<>>, blocks |-> <<>>,
     dispatched |-> <<>>, console |-> Len(stdout), written |-> <<>>,
     outcome |-> "Running", error |-> "", memory |-> mem, pointer |-> ptr,
     instruction_count |-> count, loop_depth |-> depth, loop_iterations |-> <<>>]
\* the console exchanged x with the call in progress: what Input's read_exact
\* gave, {byte} or {} at end of input (stdin), the instruction counter at a
\* breakpoint's read_line (pauses) or at debug_step's read_line (blocks)
Noted(rs, field, x) == [rs EXCEPT ![Len(rs)][field] = Append(@, x)]
\* execute_instruction or execute_instruction_capture is entered for the
\* instruction under the `for` (a step from Running; a step from a prompt goes
\* on inside the same call): the first MaxTrace ones are kept, in order
Dispatch(rs) ==
    IF status = "Running" /\ Len(rs[Len(rs)].dispatched) < MaxTrace
    THEN Noted(rs, "dispatched", Current)
    ELSE rs
\* the call in progress returned (or panicked) and left this tape and pointer,
\* these counters and tallies, and these characters written (to the returned
\* String in capture mode, to the console since the call in plain mode)
Finished(rs, outcome, msg, mem, ptr) ==
    [rs EXCEPT ![Len(rs)] =
        [@ EXCEPT !.outcome = outcome, !.error = msg, !.memory = mem, !.pointer = ptr,
                  !.instruction_count = instruction_count',
                  !.loop_depth = loop_depth',
                  !.loop_iterations = loop_iterations',
                  !.written = IF rs[Len(rs)].mode = "capture" THEN output'
                              ELSE SubSeq(stdout', rs[Len(rs)].console + 1, Len(stdout'))]]

\* the right bound tested one cell early, and with > for >=
move_right_fails_early(ptr, size) == ptr + 2 >= size
move_right_fails_late(ptr, size) == ptr + 1 > size
\* a `while` without a test
loop_continues_always(cell) == TRUE
\* a `while` condition that stops at 1
loop_continues_above_one(cell) == cell > 1

\* the effects of the arithmetic arms, the guards of the two moves, the `while`
\* condition of the Loop arm
increment_cell(cell) == wrapping_add(cell, 1)
decrement_cell(cell) == wrapping_sub(cell, 1)
add_cell(cell, n) == wrapping_add(cell, as_u8(n))
sub_cell(cell, n) == wrapping_sub(cell, as_u8(n))
move_right_fails(ptr, size) == ptr + 1 >= size
move_left_fails(ptr) == ptr = 0
loop_continues(cell) == cell # 0
\* a Loop that ran no iteration leaves the depth counter as it is
loop_exit_depth_unless_empty(depth, loop_count) ==
    IF loop_count = 0 THEN depth ELSE depth - 1
\* the Loop arm after its `while`: self.loop_depth -= 1
loop_exit_depth(depth, loop_count) == depth - 1
\* a NUL character left out of the captured String
output_push_unless_nul(out, cell) == IF cell = 0 THEN out ELSE Append(out, cell)
\* the captured character put in front of the earlier ones
output_push_first(out, cell) == <<cell>> \o out
\* capture mode's Output arm, output.push(cell as char): one more char at the
\* end of the String, the one whose code point is the cell's value
output_push(out, cell) == Append(out, cell)
\* the Input arm of capture mode leaving the cell as it was
capture_input_keeps(cell) == cell
\* capture mode's Input arm: self.memory[self.pointer] = 0
capture_input(cell) == 0
\* a store that rebuilds the tape around the written cell
write_cell_clearing(mem, ptr, value) == [i \in DOMAIN mem |-> IF i = ptr THEN value ELSE 0]
\* self.memory[self.pointer] = value
write_cell(mem, ptr, value) == [mem EXCEPT ![ptr] = value]

\* get_memory_window: `end`, the last index of the range it reads, and whether
\* indexing self.memory over start..=end panics (the tape has `size` cells)
window_end(ptr, size) == ptr + (IF 5 < size - 1 THEN 5 ELSE size - 1)
window_fails(ptr, size) == window_end(ptr, size) >= size

\* record_instruction: the counter of the node's {:?} text (the durations are
\* wall-clock readings that nothing reads back; they are left out)
record_instruction(counts, instruction) ==
    IF instruction \in DOMAIN counts
    THEN [counts EXCEPT ![instruction] = @ + 1]
    ELSE counts @@ (instruction :> 1)

\* the tally of a depth replaced by the iterations of the loop just left
add_iterations_of_last(iterations, depth, loop_count) ==
    IF depth \in DOMAIN iterations
    THEN [iterations EXCEPT ![depth] = loop_count]
    ELSE iterations @@ (depth :> loop_count)

\* the tally written after the depth counter was decremented
add_iterations_after_exit(iterations, depth, loop_count) ==
    IF depth - 1 \in DOMAIN iterations
    THEN [iterations EXCEPT ![depth - 1] = @ + loop_count]
    ELSE iterations @@ ((depth - 1) :> loop_count)

\* *self.loop_iterations.entry(depth).or_insert(0) += loop_count
add_iterations(iterations, depth, loop_count) ==
    IF depth \in DOMAIN iterations
    THEN [iterations EXCEPT ![depth] = @ + loop_count]
    ELSE iterations @@ (depth :> loop_count)

\* check_breakpoints without its test of the cell under the pointer
check_breakpoints_no_value(count) ==
    \/ \E c \in breakpoints.instruction_count : count = c
    \/ \E d \in breakpoints.loop_depth : loop_depth = d

\* check_breakpoints, evaluated with the already incremented instruction counter
check_breakpoints(count) ==
    \/ \E c \in breakpoints.instruction_count : count = c
    \/ \E v \in breakpoints.memory_value : memory[pointer] = v
    \/ \E d \in breakpoints.loop_depth : loop_depth = d

\* the number of breakpoints armed
Armed ==
    Cardinality(breakpoints.instruction_count) + Cardinality(breakpoints.memory_value)
        + Cardinality(breakpoints.loop_depth)

\* an Err raised inside a loop body is dropped and the body goes on
propagate_swallowed(stk, msg) ==
    IF Len(stk) > 1
    THEN [stack |-> [stk EXCEPT ![Len(stk)].idx = @ + 1], status |-> "Running", error |-> ""]
    ELSE [stack |-> <<>>, status |-> "Err", error |-> msg]

\* `?` and `return Err(..)`: an Err leaves every open execute_instruction and
\* the run at once; the control state the failure leaves behind
propagate(stk, msg) == [stack |-> <<>>, status |-> "Err", error |-> msg]

\* the run hands `outcome` to its caller; interpret_with_state's caller keeps it
Return(outcome, msg) ==
    /\ results' = IF mode = "capture" /\ outcome # "Running"
                  THEN Append(results, Snapshot(tree, outcome, msg, output', memory', pointer'))
                  ELSE results
    /\ runs' = IF outcome # "Running"
               THEN Finished(Dispatch(runs), outcome, msg, memory', pointer')
               ELSE Dispatch(runs)

\* a panic unwinds every open call; nothing is returned to the caller
Panicked(rs) ==
    /\ stack' = <<>>
    /\ status' = "Panic"
    /\ runs' = Finished(rs, "Panic", "", memory', pointer')
    /\ UNCHANGED <<error, results>>

\* the arm returned Ok(()): record_instruction, then (execute_instruction only)
\* the `After execution` window when debug is on, then the caller's `for`
\* moves on; rs is `runs` with what the arm exchanged with the console
Effected(instruction, rs) ==
    /\ instruction_counts' = record_instruction(instruction_counts, instruction)
    /\ IF mode = "plain" /\ debug /\ window_fails(pointer', tape_size)
       THEN Panicked(rs)
       ELSE /\ stack' = Advance(stack)
            /\ status' = "Running"
            /\ runs' = rs
            /\ UNCHANGED <<error, results>>
Completed(instruction) == Effected(instruction, Dispatch(runs))

\* the arm left by `return Err(msg)` (record_instruction is skipped)
Returned(msg) ==
    LET after == propagate(stack, msg) IN
    /\ stack' = after.stack
    /\ status' = after.status
    /\ error' = after.error
    /\ Return(after.status, after.error)
    /\ UNCHANGED instruction_counts

\* a node without an arm passed over as if it had succeeded
Rejected_skipped(instruction, msg) == Completed(instruction)
\* the arm evaluated to Err(msg): record_instruction runs, then `result` is returned
Rejected(instruction, msg) ==
    LET after == propagate(stack, msg) IN
    /\ instruction_counts' = record_instruction(instruction_counts, instruction)
    /\ stack' = after.stack
    /\ status' = after.status
    /\ error' = after.error
    /\ Return(after.status, after.error)

(***************************************************************************)
(* The callers.                                                            *)
(***************************************************************************)
\* lib.rs:47  let optimized = Optimizer::new().optimize(&ast)
Optimize ==
    /\ status = "Idle" /\ optimized = {}
    /\ optimized' = {optimize(ast)}
    /\ UNCHANGED <<tokens, parsed, ast, tree, interp, mode, status, error, output, stdout, stack, results,
                   runs>>

\* the `match ast` of run and of run_and_capture_output, on the Interpreter as
\* this step leaves it (interpret_with_state builds it in the same step)
Call(t, m) ==
    LET begun == Append(runs, Begun(t, m, memory', pointer', instruction_count',
                                    loop_depth', breakpoints', debug', step_by_step'))
    IN  /\ tree' = t
        /\ mode' = m
        /\ IF t.op = "Program"
           THEN /\ stack' = <<Frame(t.body, 1, 0)>>
                /\ status' = "Running"
                /\ error' = ""
                /\ runs' = begun
                /\ UNCHANGED results
           ELSE /\ stack' = <<>>
                /\ status' = "Err"
                /\ error' = "Expected program node"
                /\ runs' = Finished(begun, "Err", "Expected program node", memory', pointer')
                /\ results' = IF m = "capture"
                              THEN Append(results, Snapshot(t, "Err", "Expected program node",
                                                            <<>>, memory', pointer'))
                              ELSE results

\* interpret_with_state(&t): Interpreter::new() and run_and_capture_output(t)
interpret_with_state ==
    /\ optimized # {} /\ status \in {"Idle", "Ok", "Err"}
    /\ Len(results) < MaxRuns
    /\ \E t \in {ast} \cup optimized :
          /\ new
          /\ output' = <<>>
          /\ Call(t, "capture")
    /\ UNCHANGED <<tokens, parsed, ast, optimized, stdout>>

\* main.rs:54  let mut interpreter = Interpreter::new()  (main never optimizes)
new_interpreter ==
    /\ status = "Idle" /\ optimized = {}
    /\ new
    /\ status' = "New"
    /\ mode' = "plain"
    /\ UNCHANGED <<tokens, parsed, ast, tree, optimized, error, output, stdout, stack, results, runs>>

set_instruction_breakpoint ==
    /\ status = "New" /\ Armed < MaxArmed
    /\ \E count \in 1..MaxBreakCount :
          breakpoints' = [breakpoints EXCEPT !.instruction_count = {count}]
    /\ UNCHANGED <<tokens, parsed, ast, tree, optimized, memory, pointer, tape_size, instruction_count,
                   loop_depth, instruction_counts, loop_iterations, debug, step_by_step,
                   mode, status, error, output, stdout, stack, results, runs>>

set_memory_breakpoint ==
    /\ status = "New" /\ Armed < MaxArmed
    /\ \E value \in 0..MaxBreakValue :
          breakpoints' = [breakpoints EXCEPT !.memory_value = {value}]
    /\ UNCHANGED <<tokens, parsed, ast, tree, optimized, memory, pointer, tape_size, instruction_count,
                   loop_depth, instruction_counts, loop_iterations, debug, step_by_step,
                   mode, status, error, output, stdout, stack, results, runs>>

set_loop_breakpoint ==
    /\ status = "New" /\ Armed < MaxArmed
    /\ \E depth \in 0..MaxBreakDepth :
          breakpoints' = [breakpoints EXCEPT !.loop_depth = {depth}]
    /\ UNCHANGED <<tokens, parsed, ast, tree, optimized, memory, pointer, tape_size, instruction_count,
                   loop_depth, instruction_counts, loop_iterations, debug, step_by_step,
                   mode, status, error, output, stdout, stack, results, runs>>

\* main.rs:55  interpreter.set_debug(debug), with --debug given
set_debug ==
    /\ status = "New" /\ ~debug
    /\ debug' = TRUE
    /\ UNCHANGED <<tokens, parsed, ast, tree, optimized, memory, pointer, tape_size, instruction_count,
                   loop_depth, instruction_counts, loop_iterations, breakpoints,
                   step_by_step, mode, status, error, output, stdout, stack, results, runs>>

\* main.rs:56  interpreter.set_step_by_step(step), with --step given
set_step_by_step ==
    /\ status = "New" /\ ~step_by_step
    /\ step_by_step' = TRUE
    /\ UNCHANGED <<tokens, parsed, ast, tree, optimized, memory, pointer, tape_size, instruction_count,
                   loop_depth, instruction_counts, loop_iterations, breakpoints,
                   debug, mode, status, error, output, stdout, stack, results, runs>>

\* interpreter.run(&ast)
run ==
    /\ status = "New"
    /\ UNCHANGED <<tokens, parsed, ast, optimized, interp, output, stdout>>
    /\ Call(ast, "plain")

\* a later call of run(&ast): on the Interpreter the call before it returned
\* from, or on the one built since
run_again ==
    /\ status \in {"Ok", "Err", "Built"} /\ optimized = {}
    /\ Len(runs) < MaxRuns
    /\ UNCHANGED <<tokens, parsed, ast, optimized, interp, output, stdout>>
    /\ Call(ast, "plain")

\* run_and_capture_output(&ast) on the Interpreter the host holds, new or used
run_and_capture_output ==
    /\ status \in {"New", "Ok", "Err", "Built"} /\ optimized = {}
    /\ Len(runs) < MaxRuns
    /\ output' = <<>>
    /\ UNCHANGED <<tokens, parsed, ast, optimized, interp, stdout>>
    /\ Call(ast, "capture")

\* the host drops its Interpreter and builds another one for its next call the
\* way main.rs:54-56 does, with the debug flags the host was started with and
\* no breakpoint
new_interpreter_again ==
    /\ status \in {"Ok", "Err"} /\ optimized = {}
    /\ Len(runs) < MaxRuns
    /\ memory' = NewMemory
    /\ pointer' = 0
    /\ tape_size' = DEFAULT_TAPE_SIZE
    /\ instruction_count' = 0
    /\ loop_depth' = 0
    /\ instruction_counts' = <<>>
    /\ loop_iterations' = <<>>
    /\ breakpoints' = NoBreakpoints
    /\ UNCHANGED <<debug, step_by_step>>
    /\ status' = "Built"
    /\ UNCHANGED <<tokens, parsed, ast, tree, optimized, mode, error, output, stdout, stack, results, runs>>

(***************************************************************************)
(* debug_step, called by both execute_instruction and its capture twin     *)
(***************************************************************************)
\* the engine comes to its call of debug_step: from the entry of
\* execute_instruction_capture, from the entry of execute_instruction when no
\* breakpoint matches, or from a breakpoint's read_line answered with anything
\* but "q"
Entered ==
    \/ /\ status = "Running"
       /\ instruction_count < MaxSteps
       /\ mode = "plain" => ~check_breakpoints(instruction_count + 1)
       /\ instruction_count' = instruction_count + 1
    \/ /\ status = "Paused"
       /\ UNCHANGED instruction_count

\* debug_step prints nothing (debug off) or prints the window without a panic
\* and does not wait (step_by_step off)
debug_step_passes == ~debug \/ (~window_fails(pointer, tape_size) /\ ~step_by_step)

\* debug on: get_memory_window indexes past the end of the tape
debug_step_panic ==
    /\ AtInstruction /\ Entered
    /\ debug /\ window_fails(pointer, tape_size)
    /\ UNCHANGED <<tokens, parsed, ast, tree, optimized, memory, pointer, tape_size, loop_depth,
                   instruction_counts, loop_iterations, breakpoints, debug, step_by_step,
                   mode, output, stdout>>
    /\ Panicked(Dispatch(runs))

\* debug and step_by_step on: the state is printed and debug_step waits for a line
debug_step_block ==
    /\ AtInstruction /\ Entered
    /\ debug /\ ~window_fails(pointer, tape_size) /\ step_by_step
    /\ status' = "Stepping"
    /\ runs' = Noted(Dispatch(runs), "blocks", instruction_count')
    /\ UNCHANGED <<tokens, parsed, ast, tree, optimized, memory, pointer, tape_size, loop_depth,
                   instruction_counts, loop_iterations, breakpoints, debug, step_by_step,
                   mode, error, output, stdout, stack, results>>

(***************************************************************************)
(* run_and_capture_output / execute_instruction_capture                    *)
(***************************************************************************)
\* one call of execute_instruction_capture up to its return, or, for a Loop,
\* up to the first evaluation of its `while` condition: from its entry when
\* debug_step does not wait, or from the line debug_step waited for
execute_instruction_capture ==
    /\ mode = "capture" /\ AtInstruction
    /\ \/ Entered /\ debug_step_passes
       \/ status = "Stepping" /\ UNCHANGED instruction_count
    /\ UNCHANGED <<tokens, parsed, ast, tree, optimized, tape_size, breakpoints, debug, step_by_step,
                   mode, stdout>>
    /\ LET instruction == Current IN
       \/ /\ instruction.op = "Output"
          /\ output' = output_push(output, memory[pointer])
          /\ UNCHANGED <<memory, pointer, loop_depth, loop_iterations>>
          /\ Completed(instruction)
       \/ /\ instruction.op = "Loop"
          /\ loop_depth' = loop_depth + 1
          /\ stack' = Append(stack, Frame(instruction.body, Len(instruction.body) + 1, 0))
          /\ status' = "Running"
          /\ UNCHANGED <<memory, pointer, output, loop_iterations, instruction_counts,
                         error, results>>
          /\ runs' = Dispatch(runs)
       \/ /\ instruction.op = "Increment"
          /\ memory' = write_cell(memory, pointer, increment_cell(memory[pointer]))
          /\ UNCHANGED <<pointer, output, loop_depth, loop_iterations>>
          /\ Completed(instruction)
       \/ /\ instruction.op = "Decrement"
          /\ memory' = write_cell(memory, pointer, decrement_cell(memory[pointer]))
          /\ UNCHANGED <<pointer, output, loop_depth, loop_iterations>>
          /\ Completed(instruction)
       \/ /\ instruction.op = "Add"
          /\ memory' = write_cell(memory, pointer, add_cell(memory[pointer], instruction.n))
          /\ UNCHANGED <<pointer, output, loop_depth, loop_iterations>>
          /\ Completed(instruction)
       \/ /\ instruction.op = "Sub"
          /\ memory' = write_cell(memory, pointer, sub_cell(memory[pointer], instruction.n))
          /\ UNCHANGED <<pointer, output, loop_depth, loop_iterations>>
          /\ Completed(instruction)
       \/ /\ instruction.op = "MoveRight"
          /\ UNCHANGED <<memory, output, loop_depth, loop_iterations>>
          /\ IF move_right_fails(pointer, tape_size)
             THEN /\ UNCHANGED pointer
                  /\ Returned("Pointer out of bounds")
             ELSE /\ pointer' = pointer + 1
                  /\ Completed(instruction)
       \/ /\ instruction.op = "MoveLeft"
          /\ UNCHANGED <<memory, output, loop_depth, loop_iterations>>
          /\ IF move_left_fails(pointer)
             THEN /\ UNCHANGED pointer
                  /\ Returned("Pointer out of bounds")
             ELSE /\ pointer' = pointer - 1
                  /\ Completed(instruction)
       \/ /\ instruction.op = "Input"
          /\ memory' = write_cell(memory, pointer, capture_input(memory[pointer]))
          /\ UNCHANGED <<pointer, output, loop_depth, loop_iterations>>
          /\ Completed(instruction)
       \/ /\ instruction.op = "Program"
          /\ UNCHANGED <<memory, pointer, output, loop_depth, loop_iterations>>
          /\ Rejected(instruction, "Invalid instruction")

\* the Loop arm from its `while` condition on: one more pass over the body, or
\* the bookkeeping after the loop and the return to the caller's `for`
LoopWhile ==
    /\ status = "Running" /\ Len(stack) > 1 /\ ~AtInstruction
    /\ UNCHANGED <<tokens, parsed, ast, tree, optimized, memory, pointer, tape_size, instruction_count,
                   breakpoints, debug, step_by_step, mode, output, stdout>>
    /\ IF loop_continues(memory[pointer])
       THEN /\ Top.loop_count < MaxSteps
            /\ stack' = [stack EXCEPT ![Len(stack)] = Frame(@.instrs, 1, @.loop_count + 1)]
            /\ UNCHANGED <<loop_depth, loop_iterations, instruction_counts, status, error,
                           results, runs>>
       ELSE LET callers == SubSeq(stack, 1, Len(stack) - 1)
                instruction == callers[Len(callers)].instrs[callers[Len(callers)].idx]
            IN  /\ loop_iterations' = add_iterations(loop_iterations, loop_depth, Top.loop_count)
                /\ loop_depth' = loop_exit_depth(loop_depth, Top.loop_count)
                /\ instruction_counts' = record_instruction(instruction_counts, instruction)
                /\ IF mode = "plain" /\ debug /\ window_fails(pointer, tape_size)
                   THEN Panicked(runs)
                   ELSE /\ stack' = Advance(callers)
                        /\ UNCHANGED <<status, error, results, runs>>

loop_while_capture == mode = "capture" /\ LoopWhile

\* the root's `for` is exhausted: Ok((output, self.memory.clone(), self.pointer))
run_and_capture_output_return ==
    /\ mode = "capture" /\ status = "Running" /\ Len(stack) = 1 /\ ~AtInstruction
    /\ status' = "Ok"
    /\ stack' = <<>>
    /\ results' = Append(results, Snapshot(tree, "Ok", "", output, memory, pointer))
    /\ UNCHANGED <<tokens, parsed, ast, tree, optimized, interp, mode, error, output, stdout>>
    /\ runs' = Finished(runs, "Ok", "", memory, pointer)

(***************************************************************************)
(* run / execute_instruction                                               *)
(***************************************************************************)
\* a breakpoint that is disarmed by its hit
breakpoint_pause_disarms ==
    /\ mode = "plain" /\ status = "Running" /\ AtInstruction
    /\ instruction_count < MaxSteps
    /\ check_breakpoints(instruction_count + 1)
    /\ instruction_count' = instruction_count + 1
    /\ status' = "Paused"
    /\ breakpoints' = NoBreakpoints
    /\ runs' = Noted(Dispatch(runs), "pauses", instruction_count')
    /\ UNCHANGED <<tokens, parsed, ast, tree, optimized, memory, pointer, tape_size, loop_depth,
                   instruction_counts, loop_iterations, debug, step_by_step,
                   mode, error, output, stdout, stack, results>>

\* execute_instruction from its entry to the blocking read_line of a breakpoint
\* that matched
breakpoint_pause ==
    /\ mode = "plain" /\ status = "Running" /\ AtInstruction
    /\ instruction_count < MaxSteps
    /\ check_breakpoints(instruction_count + 1)
    /\ instruction_count' = instruction_count + 1
    /\ status' = "Paused"
    /\ runs' = Noted(Dispatch(runs), "pauses", instruction_count')
    /\ UNCHANGED <<tokens, parsed, ast, tree, optimized, memory, pointer, tape_size, loop_depth,
                   instruction_counts, loop_iterations, breakpoints, debug, step_by_step,
                   mode, error, output, stdout, stack, results>>

\* the line read at the breakpoint is "q"
breakpoint_quit ==
    /\ mode = "plain" /\ status = "Paused"
    /\ UNCHANGED <<tokens, parsed, ast, tree, optimized, memory, pointer, tape_size, instruction_count,
                   loop_depth, loop_iterations, breakpoints, debug, step_by_step, mode,
                   output, stdout>>
    /\ Returned("Execution terminated by user")

\* one call of execute_instruction up to its return (for a Loop: up to the
\* first evaluation of its `while` condition), either from its entry when no
\* breakpoint matches, or from the read_line of a breakpoint answered with
\* anything but "q", in both cases when debug_step does not wait, or from the
\* line debug_step waited for
execute_instruction ==
    /\ mode = "plain" /\ AtInstruction
    /\ \/ Entered /\ debug_step_passes
       \/ status = "Stepping" /\ UNCHANGED instruction_count
    /\ UNCHANGED <<tokens, parsed, ast, tree, optimized, tape_size, breakpoints, debug, step_by_step,
                   mode, output>>
    /\ LET instruction == Current IN
       \/ /\ instruction.op = "Increment"
          /\ memory' = write_cell(memory, pointer, increment_cell(memory[pointer]))
          /\ UNCHANGED <<pointer, stdout, loop_depth, loop_iterations>>
          /\ Completed(instruction)
       \/ /\ instruction.op = "Decrement"
          /\ memory' = write_cell(memory, pointer, decrement_cell(memory[pointer]))
          /\ UNCHANGED <<pointer, stdout, loop_depth, loop_iterations>>
          /\ Completed(instruction)
       \/ /\ instruction.op = "Add"
          /\ memory' = write_cell(memory, pointer, add_cell(memory[pointer], instruction.n))
          /\ UNCHANGED <<pointer, stdout, loop_depth, loop_iterations>>
          /\ Completed(instruction)
       \/ /\ instruction.op = "Sub"
          /\ memory' = write_cell(memory, pointer, sub_cell(memory[pointer], instruction.n))
          /\ UNCHANGED <<pointer, stdout, loop_depth, loop_iterations>>
          /\ Completed(instruction)
       \/ /\ instruction.op = "MoveRight"
          /\ UNCHANGED <<memory, stdout, loop_depth, loop_iterations>>
          /\ IF move_right_fails(pointer, tape_size)
             THEN /\ UNCHANGED pointer
                  /\ Returned("Pointer out of bounds")
             ELSE /\ pointer' = pointer + 1
                  /\ Completed(instruction)
       \/ /\ instruction.op = "MoveLeft"
          /\ UNCHANGED <<memory, stdout, loop_depth, loop_iterations>>
          /\ IF move_left_fails(pointer)
             THEN /\ UNCHANGED pointer
                  /\ Returned("Pointer out of bounds")
             ELSE /\ pointer' = pointer - 1
                  /\ Completed(instruction)
       \/ /\ instruction.op = "Output"
          /\ stdout' = Append(stdout, memory[pointer])
          /\ UNCHANGED <<memory, pointer, loop_depth, loop_iterations>>
          /\ Completed(instruction)
       \/ /\ instruction.op = "Input"
          \* read_exact gives one byte, or fails at end of input and the cell is kept
          /\ UNCHANGED <<pointer, stdout, loop_depth, loop_iterations>>
          /\ \/ \E byte \in 0..MaxStdinByte :
                   /\ memory' = write_cell(memory, pointer, byte)
                   /\ Effected(instruction, Noted(Dispatch(runs), "stdin", {byte}))
             \/ /\ UNCHANGED memory
                /\ Effected(instruction, Noted(Dispatch(runs), "stdin", {}))
       \/ /\ instruction.op = "Loop"
          /\ loop_depth' = loop_depth + 1
          /\ stack' = Append(stack, Frame(instruction.body, Len(instruction.body) + 1, 0))
          /\ status' = "Running"
          /\ UNCHANGED <<memory, pointer, stdout, loop_iterations, instruction_counts,
                         error, results>>
          /\ runs' = Dispatch(runs)
       \/ /\ instruction.op = "Program"
          /\ UNCHANGED <<memory, pointer, stdout, loop_depth, loop_iterations>>
          /\ Rejected(instruction, "Invalid instruction")

loop_while == mode = "plain" /\ LoopWhile

\* the root's `for` is exhausted: Ok(())
run_return ==
    /\ mode = "plain" /\ status = "Running" /\ Len(stack) = 1 /\ ~AtInstruction
    /\ status' = "Ok"
    /\ stack' = <<>>
    /\ UNCHANGED <<tokens, parsed, ast, tree, optimized, interp, mode, error, output, stdout, results>>
    /\ runs' = Finished(runs, "Ok", "", memory, pointer)

Next ==
    \/ Optimize
    \/ interpret_with_state
    \/ execute_instruction_capture
    \/ loop_while_capture
    \/ run_and_capture_output_return
    \/ new_interpreter
    \/ set_instruction_breakpoint
    \/ set_memory_breakpoint
    \/ set_loop_breakpoint
    \/ run
    \/ breakpoint_pause
    \/ breakpoint_quit
    \/ execute_instruction
    \/ loop_while
    \/ run_return

Spec == Init /\ [][Next]_vars

(***************************************************************************)
(* A host session on one Interpreter at a time, the way main.rs and the     *)
(* tests use the public interface: construct, arm breakpoints, set the     *)
(* debug flags, then call run or run_and_capture_output, MaxRuns calls in   *)
(* all, each on the Interpreter of the call before or on a new one.         *)
(***************************************************************************)
SessionTrees == CanonicalTrees \cup MalformedTrees \cup ExampleTrees
InitSession == ast \in SessionTrees /\ tokens = <<>> /\ Start

NextSession ==
    \/ new_interpreter
    \/ new_interpreter_again
    \/ set_instruction_breakpoint
    \/ set_memory_breakpoint
    \/ set_loop_breakpoint
    \/ set_debug
    \/ set_step_by_step
    \/ run
    \/ run_again
    \/ run_and_capture_output
    \/ debug_step_panic
    \/ debug_step_block
    \/ execute_instruction_capture
    \/ loop_while_capture
    \/ run_and_capture_output_return
    \/ breakpoint_pause
    \/ breakpoint_quit
    \/ execute_instruction
    \/ loop_while
    \/ run_return

SpecSession == InitSession /\ [][NextSession]_vars

(***************************************************************************)
(* Runs, with debug off, of programs that are one loop entered on a chosen *)
(* value.  Once called, run and run_and_capture_output are sequential code *)
(* that goes on by itself: from a state where the interpreter is running   *)
(* (not waiting for the user at a breakpoint prompt) its next step is      *)
(* eventually taken.                                                       *)
(***************************************************************************)
LoopValues == {0, 1, 2, 3, U8 - 1}
\* bodies that leave the tested cell zero or nonzero as they found it
KeepingBodies == { <<>>, <<Output>>, <<MoveRight, MoveLeft>> }
DecrementTree(v) == Program(<<Add(v), Loop(<<Decrement>>)>>)
KeepingTree(v, loop_body) == Program(<<Add(v), Loop(loop_body)>>)
LoopTrees ==
    { DecrementTree(v) : v \in LoopValues }
        \cup { KeepingTree(v, b) : v \in LoopValues, b \in KeepingBodies }

InitLoops == ast \in LoopTrees /\ tokens = <<>> /\ Start

NextLoops ==
    \/ new_interpreter
    \/ set_instruction_breakpoint
    \/ set_memory_breakpoint
    \/ set_loop_breakpoint
    \/ run
    \/ run_and_capture_output
    \/ execute_instruction_capture
    \/ loop_while_capture
    \/ run_and_capture_output_return
    \/ breakpoint_pause
    \/ breakpoint_quit
    \/ execute_instruction
    \/ loop_while
    \/ run_return

Progress ==
    /\ status = "Running"
    /\ \/ execute_instruction_capture
       \/ loop_while_capture
       \/ run_and_capture_output_return
       \/ breakpoint_pause
       \/ execute_instruction
       \/ loop_while
       \/ run_return

SpecLoops == InitLoops /\ [][NextLoops]_vars /\ WF_vars(Progress)

(***************************************************************************)
(* The parser alone, on every token sequence of up to MaxTokens tokens.    *)
(***************************************************************************)
Tokens == {"IncrementPtr", "DecrementPtr", "Increment", "Decrement",
           "LoopStart", "LoopEnd", "Input", "Output"}
TokenSeqs == UNION { [1..n -> Tokens] : n \in 0..MaxTokens }

\* parser::parse(tokens): the caller keeps the tree of an Ok
Parse ==
    /\ status = "Idle" /\ parsed = {}
    /\ parsed' = {parse(tokens)}
    /\ ast' = IF parse(tokens).ok THEN parse(tokens).node ELSE ast
    /\ tree' = ast'
    /\ UNCHANGED <<tokens, optimized, interp, mode, status, error, output, stdout, stack,
                   results, runs>>

InitParser == tokens \in TokenSeqs /\ ast = Program(<<>>) /\ Start
SpecParser == InitParser /\ [][Parse]_vars

(***************************************************************************)
(* The optimizer alone, on every tree of up to MaxOptNodes nodes.          *)
(***************************************************************************)
OptimizerTrees ==
    { Program(b) : b \in UNION { Blocks(k) : k \in 0..MaxOptNodes } } \cup ExampleTrees
InitOptimizer == ast \in OptimizerTrees /\ tokens = <<>> /\ Start
SpecOptimizer == InitOptimizer /\ [][Optimize]_vars

(***************************************************************************)
(* Properties.                                                             *)
(***************************************************************************)
Kinds(instructions) == [i \in DOMAIN instructions |-> instructions[i].op]

\* every node of the tree is one of the eight canonical instructions
RECURSIVE CanonicalBlock(_)
CanonicalBlock(instructions) ==
    \A i \in DOMAIN instructions :
        \/ instructions[i] \in Leaves
        \/ instructions[i].op = "Loop" /\ instructions[i].n = 0
           /\ CanonicalBlock(instructions[i].body)
IsCanonical(t) == t.op = "Program" /\ CanonicalBlock(t.body)

\* k copies of a node
RECURSIVE Copies(_, _)
Copies(node, k) == IF k = 0 THEN <<>> ELSE <<node>> \o Copies(node, k - 1)

\* the sequence with every Add(n) written as n Increment and every Sub(n) as n
\* Decrement, at every depth (Unfold) or in the sequence itself only (UnfoldTop)
RECURSIVE Unfold(_)
Unfold(instructions) ==
    IF instructions = <<>> THEN <<>>
    ELSE LET head == instructions[1]
             rest == Unfold(Tail(instructions))
         IN  CASE head.op = "Add" -> Copies(Increment, head.n) \o rest
               [] head.op = "Sub" -> Copies(Decrement, head.n) \o rest
               [] head.op \in {"Loop", "Program"} ->
                      <<Node(head.op, head.n, Unfold(head.body))>> \o rest
               [] OTHER -> <<head>> \o rest

RECURSIVE UnfoldTop(_)
UnfoldTop(instructions) ==
    IF instructions = <<>> THEN <<>>
    ELSE LET head == instructions[1]
             rest == UnfoldTop(Tail(instructions))
         IN  CASE head.op = "Add" -> Copies(Increment, head.n) \o rest
               [] head.op = "Sub" -> Copies(Decrement, head.n) \o rest
               [] OTHER -> <<head>> \o rest

\* what a finished run showed: outcome, error, output, final tape and pointer
Observed(r) == <<r.outcome, r.error, r.output, r.memory, r.pointer>>

\* C1: Optimizer equivalence.  Whenever a capture run of the tree and a capture
\* run of its optimized form, each on a fresh Interpreter, have both returned,
\* they returned the same outcome (Ok, or the same error), the same output,
\* the same final tape and the same final pointer.
C1_OptimizerEquivalence ==
    \A i, j \in DOMAIN results :
        (results[i].tree = ast /\ results[j].tree = optimize(ast))
            => Observed(results[i]) = Observed(results[j])

\* a folded tree and the original have both run through a loop and printed
C1_Witness ==
    /\ ast = Program(<<Increment, Increment, Loop(<<Decrement, Decrement>>), Output>>)
    /\ Len(results) = 2
    /\ results[1].tree = ast
    /\ results[2].tree = Program(<<Add(2), Loop(<<Decrement, Decrement>>), Output>>)
    /\ results[2].outcome = "Ok"
    /\ results[2].output = <<0>>

\* a sequence in which no two neighbours are both Increment and no two both
\* Decrement
NoUnitPair(instructions) ==
    \A i \in 1..(Len(instructions) - 1) :
        /\ ~(instructions[i].op = "Increment" /\ instructions[i + 1].op = "Increment")
        /\ ~(instructions[i].op = "Decrement" /\ instructions[i + 1].op = "Decrement")

\* `folded` is the fold of the canonical sequence `original`: written out, its
\* counted nodes give the original's instructions kind by kind in the same
\* order; a counted node stands for two or more; each maximal run became one
\* node, so no two neighbours both add and no two both subtract
FoldOf(original, folded_seq) ==
    /\ Kinds(UnfoldTop(folded_seq)) = Kinds(original)
    /\ \A i \in DOMAIN folded_seq :
           folded_seq[i].op \in {"Add", "Sub"} => folded_seq[i].n >= 2
    /\ \A i \in 1..(Len(folded_seq) - 1) :
           /\ ~(folded_seq[i].op \in {"Increment", "Add"}
                /\ folded_seq[i + 1].op \in {"Increment", "Add"})
           /\ ~(folded_seq[i].op \in {"Decrement", "Sub"}
                /\ folded_seq[i + 1].op \in {"Decrement", "Sub"})
    /\ NoUnitPair(folded_seq)

\* C2: Fold rule on a sequence.  In the optimized top-level sequence every
\* maximal run of k >= 2 Increment is exactly one Add(k) and a run of one stays
\* Increment, the same for Decrement and Sub(k), every other instruction keeps
\* its place; [Inc,Inc,Inc] gives [Add(3)], [Inc,Inc,MoveRight,Dec,Dec] gives
\* [Add(2),MoveRight,Sub(2)], and no two neighbours of the optimized sequence
\* are both Increment or both Decrement.
C2_FoldRule ==
    \A t \in optimized :
        IsCanonical(ast) =>
            /\ t.op = "Program"
            /\ FoldOf(ast.body, t.body)
            /\ ast = Program(<<Increment, Increment, Increment>>)
                   => t = Program(<<Add(3)>>)
            /\ ast = Program(<<Increment, Increment, MoveRight, Decrement, Decrement>>)
                   => t = Program(<<Add(2), MoveRight, Sub(2)>>)

\* test_optimize_mixed has been optimized
C2_Witness ==
    /\ ast = Program(<<Increment, Increment, MoveRight, Decrement, Decrement>>)
    /\ optimized = {Program(<<Add(2), MoveRight, Sub(2)>>)}

\* no loop body, at any depth below the sequence, holds two neighbouring
\* Increment or two neighbouring Decrement
RECURSIVE LoopBodiesFolded(_)
LoopBodiesFolded(instructions) ==
    \A i \in DOMAIN instructions :
        instructions[i].op = "Loop"
            => NoUnitPair(instructions[i].body) /\ LoopBodiesFolded(instructions[i].body)

\* C3: The optimizer folds inside loop bodies at every nesting depth: in the
\* optimized tree every loop body is the folded form of the original body, so
\* no loop body is left with a run of two or more Increment (or Decrement).
C3_FoldsInsideLoops ==
    \A t \in optimized : IsCanonical(ast) => LoopBodiesFolded(t.body)

\* C4: Folding never merges or cancels across instruction kinds and never
\* crosses a Loop boundary: writing every Add(n) of the optimized tree as n
\* Increment and every Sub(n) as n Decrement gives back exactly the original
\* tree, loop structure included.
C4_UnfoldGivesOriginal ==
    \A t \in optimized :
        IsCanonical(ast) => t.op = "Program" /\ Program(Unfold(t.body)) = ast

\* runs of both kinds met without a separator, next to a loop, and were folded
C4_Witness ==
    /\ ast = Program(<<Increment, Increment, Decrement, Loop(<<>>)>>)
    /\ optimized = {Program(<<Add(2), Decrement, Loop(<<>>)>>)}

(***************************************************************************)
(* Steps of the engine, as the properties below name them.                 *)
(***************************************************************************)
UserTerminated == "Execution terminated by user"
OutOfBounds == "Pointer out of bounds"
InvalidInstruction == "Invalid instruction"

\* the engine stands before an instruction: at the entry of execute_instruction
\* (or its capture twin), or inside it at a breakpoint's read_line
Dispatching == status \in {"Running", "Paused"} /\ AtInstruction
\* this step answers a breakpoint with "q"
Quits == status = "Paused" /\ status' = "Err" /\ error' = UserTerminated
\* this step runs the arm of the instruction the engine stands before (it may
\* fail); the step into a breakpoint's read_line and the quit are no such step
Executes == Dispatching /\ stack' # stack /\ ~Quits

\* k unit Increments / Decrements applied one after the other to a cell value:
\* the first half of them, then the rest (the test of `half` has TLC compute
\* it before it descends, which keeps the evaluation shallow)
RECURSIVE Increments(_, _)
Increments(v, k) ==
    IF k = 0 THEN v
    ELSE IF k = 1 THEN increment_cell(v)
    ELSE LET half == Increments(v, k \div 2)
         IN  IF half \in Int THEN Increments(half, k - (k \div 2)) ELSE half
RECURSIVE Decrements(_, _)
Decrements(v, k) ==
    IF k = 0 THEN v
    ELSE IF k = 1 THEN decrement_cell(v)
    ELSE LET half == Decrements(v, k \div 2)
         IN  IF half \in Int THEN Decrements(half, k - (k \div 2)) ELSE half

\* C5: Cell arithmetic wraps modulo 256 and never fails.  In either mode
\* Increment, Decrement, Add(n) and Sub(n) always succeed; Increment leaves
\* (v + 1) mod 256 (0 on 255), Decrement (v - 1) mod 256 (255 on 0), Add(n)
\* leaves (v + n) mod 256 and Sub(n) (v - n) mod 256 for every n, 256 and more
\* included, which is what n unit Increments or Decrements leave.
C5_WrappingArithmetic ==
    [][ (Executes /\ Current.op \in {"Increment", "Decrement", "Add", "Sub"}) =>
            LET v == memory[pointer]
                k == Current.n
            IN  /\ status' = "Running"
                /\ memory'[pointer] \in 0..255
                /\ Current.op = "Increment" =>
                       /\ memory'[pointer] = (v + 1) % 256
                       /\ v = 255 => memory'[pointer] = 0
                /\ Current.op = "Decrement" =>
                       /\ memory'[pointer] = (v - 1) % 256
                       /\ v = 0 => memory'[pointer] = 255
                /\ Current.op = "Add" =>
                       /\ memory'[pointer] = (v + k) % 256
                       /\ memory'[pointer] = Increments(v, k)
                /\ Current.op = "Sub" =>
                       /\ memory'[pointer] = (v - k) % 256
                       /\ memory'[pointer] = Decrements(v, k)
      ]_vars

\* Add(257) ran on a cell holding 255 and left 0
C5_Witness ==
    /\ tree = Program(<<Add(255), Add(257)>>)
    /\ status = "Ok"
    /\ instruction_count = 2
    /\ memory[0] = 0

\* C6: Bounds failures.  In both run modes MoveLeft executed with pointer = 0
\* and MoveRight executed with pointer = tape_size - 1 fail with the
\* out-of-bounds error and leave the pointer and every cell unchanged; in every
\* other position the move succeeds and changes the pointer by exactly one.
C6_BoundsFailures ==
    [][ /\ (Executes /\ Current.op = "MoveLeft") =>
               /\ memory' = memory
               /\ IF pointer = 0
                  THEN status' = "Err" /\ error' = OutOfBounds /\ pointer' = pointer
                  ELSE status' = "Running" /\ pointer' = pointer - 1
        /\ (Executes /\ Current.op = "MoveRight") =>
               /\ memory' = memory
               /\ IF pointer = tape_size - 1
                  THEN status' = "Err" /\ error' = OutOfBounds /\ pointer' = pointer
                  ELSE status' = "Running" /\ pointer' = pointer + 1
      ]_vars

\* a capture run walked to the last cell and failed moving right from it
C6_Witness ==
    /\ mode = "capture"
    /\ status = "Err"
    /\ error = OutOfBounds
    /\ pointer = tape_size - 1
    /\ memory[pointer] = 1

\* C7: In every reachable state of a run, for every program, the pointer
\* satisfies 0 <= pointer < tape_size (the tape having tape_size cells), the
\* state an out-of-bounds failure leaves behind included.
C7_PointerInBounds ==
    /\ 0 <= pointer /\ pointer < tape_size
    /\ DOMAIN memory = 0..(tape_size - 1)

\* a plain run of `+[>+]` failed at the right edge inside the loop and was left
\* with the pointer on the last cell
C7_Witness ==
    /\ mode = "plain"
    /\ status = "Err"
    /\ error = OutOfBounds
    /\ tree = Program(<<Increment, Loop(<<MoveRight, Increment>>)>>)
    /\ pointer = tape_size - 1
    /\ loop_depth = 1

\* the engine stands at the `while` condition of the innermost open Loop
AtWhile == status = "Running" /\ Len(stack) > 1 /\ ~AtInstruction

\* C8: Loop execution tests the cell under the pointer before each iteration,
\* runs the whole body left to right when it is nonzero and exits only when it
\* is zero: entering a Loop leads to the test before any body instruction, a
\* test on 0 leaves the loop (so a Loop entered on 0 runs no body instruction),
\* a test on a nonzero cell starts the body at its first instruction, a body
\* instruction that succeeds is followed by the next one, and a Loop that
\* completes leaves the cell under the pointer at 0.
C8_LoopExecution ==
    [][ /\ (Executes /\ Current.op = "Loop") =>
               /\ Len(stack') = Len(stack) + 1
               /\ AtWhile'
               /\ memory' = memory /\ pointer' = pointer
        /\ AtWhile =>
               /\ memory' = memory /\ pointer' = pointer
               /\ IF memory[pointer] = 0
                  THEN /\ Len(stack') = Len(stack) - 1
                       /\ stack'[Len(stack')].idx = stack[Len(stack')].idx + 1
                  ELSE /\ Len(stack') = Len(stack)
                       /\ stack'[Len(stack')].idx = 1
                       /\ stack'[Len(stack')].loop_count = Top.loop_count + 1
        /\ (Executes /\ Len(stack) > 1 /\ Current.op # "Loop" /\ status' = "Running") =>
               stack' = Advance(stack)
        /\ (Len(stack) > 1 /\ status' = "Running" /\ Len(stack') < Len(stack)) =>
               /\ AtWhile
               /\ memory[pointer] = 0
               /\ memory'[pointer'] = 0
      ]_vars

\* `++[--].`: one pass over the loop body on a cell holding 2, then out
C8_Witness ==
    /\ tree = Program(<<Increment, Increment,
                        Loop(<<Decrement, Decrement>>), Output>>)
    /\ mode = "plain"
    /\ status = "Ok"
    /\ memory[0] = 0
    /\ stdout = <<0>>
    /\ 1 \in DOMAIN loop_iterations /\ loop_iterations[1] = 1

\* the instruction the engine stands before fails when its arm runs
FailsHere ==
    \/ Current.op = "MoveLeft" /\ pointer = 0
    \/ Current.op = "MoveRight" /\ pointer = tape_size - 1
    \/ Current.op = "Program"

\* C9: A failure is fatal and freezes state.  An instruction that fails (out of
\* bounds, invalid node), at any loop nesting depth, ends the run with its
\* error, and every failure, a quit at a breakpoint included, ends it at once: no activation is left, tape and
\* pointer are as the failing instruction found them, the caller is handed
\* the same error, and the only step an Interpreter in error takes part in is
\* the construction of a fresh one for another call.
C9_FailureFreezes ==
    [][ /\ (Executes /\ FailsHere) =>
               /\ status' = "Err"
               /\ error' = IF Current.op = "Program" THEN InvalidInstruction ELSE OutOfBounds
        /\ (status # "Err" /\ status' = "Err" /\ stack # <<>>) =>
               /\ memory' = memory /\ pointer' = pointer
               /\ stack' = <<>>
               /\ error' \in {OutOfBounds, UserTerminated, InvalidInstruction}
               /\ mode = "capture" =>
                      /\ Len(results') = Len(results) + 1
                      /\ results'[Len(results')].outcome = "Err"
                      /\ results'[Len(results')].error = error'
                      /\ results'[Len(results')].memory = memory
                      /\ results'[Len(results')].pointer = pointer
        /\ status = "Err" =>
               /\ stack = <<>>
               /\ instruction_count' = 0 /\ memory' = NewMemory /\ pointer' = 0
      ]_vars

\* a move failed two loops deep, after earlier instructions had changed the tape
C9_Witness ==
    /\ tree = Program(<<Increment, Loop(<<Loop(<<Increment, Increment, MoveLeft>>)>>)>>)
    /\ status = "Err"
    /\ error = OutOfBounds
    /\ loop_depth = 2
    /\ memory[0] = 3
    /\ stack = <<>>

\* C10: Capture mode is deterministic: two calls of interpret_with_state on the
\* same tree return the same outcome, identical output and identical tape and
\* pointer snapshots.
C10_CaptureDeterministic ==
    \A i, j \in DOMAIN results :
        results[i].tree = results[j].tree => Observed(results[i]) = Observed(results[j])

\* `,.` ran twice, each run reading end of input and printing the cell
C10_Witness ==
    /\ Len(results) = 2
    /\ results[1].tree = Program(<<Input, Output>>)
    /\ results[2].tree = results[1].tree
    /\ results[2].outcome = "Ok"
    /\ results[2].output = <<0>>
    /\ results[2].memory[0] = 0

(***************************************************************************)
(* Properties of a host session.                                           *)
(***************************************************************************)
\* C11: Execution state is fresh per run invocation.  Every call of run or
\* run_and_capture_output starts from an all-zero tape, pointer 0, instruction
\* counter 0 and loop depth 0, whatever an earlier call on the same
\* Interpreter, successful or failed, left behind.
C11_FreshPerRun ==
    \A i \in DOMAIN runs :
        /\ runs[i].start.memory = NewMemory
        /\ runs[i].start.pointer = 0
        /\ runs[i].start.instruction_count = 0
        /\ runs[i].start.loop_depth = 0

\* the call found the Interpreter as Interpreter::new leaves it
Fresh(r) ==
    r.start = [memory |-> NewMemory, pointer |-> 0, instruction_count |-> 0,
               loop_depth |-> 0]

\* an armed predicate holds for the instruction about to be dispatched (the
\* counter as execute_instruction has it at its check, already incremented)
Matches ==
    \/ \E c \in breakpoints.instruction_count : instruction_count + 1 = c
    \/ \E v \in breakpoints.memory_value : memory[pointer] = v
    \/ \E d \in breakpoints.loop_depth : loop_depth = d

\* C12: Breakpoint suspension in run.  Whenever an armed predicate (instruction
\* count, current cell value, loop depth) matches as an instruction is about
\* to be dispatched, run suspends before that instruction's effect and waits.
\* On quit the run ends with the user-terminated error, tape and pointer as
\* before that instruction; on resume the engine goes on to that instruction
\* (never past it), so a run in which every suspension was resumed ends with
\* the same outcome, tape and pointer as the same run, with the same input, on
\* an Interpreter with no breakpoint armed.
C12_BreakpointSuspension ==
    /\ [][ /\ (mode = "plain" /\ status = "Running" /\ AtInstruction /\ Matches) =>
                  /\ status' = "Paused"
                  /\ memory' = memory /\ pointer' = pointer /\ stack' = stack
           /\ Quits =>
                  /\ memory' = memory /\ pointer' = pointer
                  /\ runs'[Len(runs')].outcome = "Err"
                  /\ runs'[Len(runs')].error = UserTerminated
           /\ (status = "Paused" /\ ~Quits) =>
                  /\ status' \in {"Running", "Err", "Stepping", "Panic"}
                  /\ status' = "Running" => stack' # stack
                  /\ status' = "Stepping" => stack' = stack /\ memory' = memory
         ]_vars
    /\ [](\A i, j \in DOMAIN runs :
             ( /\ runs[i].mode = "plain" /\ runs[j].mode = "plain"
               /\ runs[i].tree = runs[j].tree
               /\ Fresh(runs[i]) /\ Fresh(runs[j])
               /\ runs[i].debug = runs[j].debug
               /\ runs[i].step_by_step = runs[j].step_by_step
               /\ runs[i].stdin = runs[j].stdin
               /\ runs[i].breakpoints = NoBreakpoints
               /\ runs[i].outcome # "Running" /\ runs[j].outcome # "Running"
               /\ runs[j].error # UserTerminated )
             => /\ runs[i].outcome = runs[j].outcome
                /\ runs[i].error = runs[j].error
                /\ runs[i].memory = runs[j].memory
                /\ runs[i].pointer = runs[j].pointer)

\* `++>--` ran with a breakpoint that was hit and resumed, then once more on an
\* Interpreter without breakpoints
C12_Witness ==
    /\ Len(runs) = 2
    /\ runs[1].tree = Program(<<Increment, Increment, MoveRight, Decrement, Decrement>>)
    /\ runs[1].mode = "plain" /\ runs[2].mode = "plain"
    /\ runs[1].pauses # <<>>
    /\ runs[1].outcome = "Ok"
    /\ runs[2].breakpoints = NoBreakpoints
    /\ Fresh(runs[2])
    /\ runs[2].outcome = "Ok"
    /\ runs[2].memory[0] = 2 /\ runs[2].memory[1] = 254 /\ runs[2].pointer = 1

\* how many times x occurs in a sequence
Occurrences(seq, x) == Cardinality({ k \in DOMAIN seq : seq[k] = x })

\* C13: Breakpoints are never removed by a hit and re-trigger whenever their
\* condition recurs.  No step of a run changes the armed breakpoints; an armed
\* cell-value or loop-depth breakpoint suspends run before every instruction
\* at which its predicate holds; an armed instruction-count breakpoint N
\* suspends before the N-th dispatched instruction (the counter is incremented
\* before the check) and, in a run started from a fresh state, exactly there:
\* once the N-th instruction has been reached, and never a second time.
C13_BreakpointsPersist ==
    /\ [][ /\ status \in {"Running", "Paused", "Stepping"} => breakpoints' = breakpoints
           /\ ( /\ mode = "plain" /\ status = "Running" /\ AtInstruction
                /\ \/ \E v \in breakpoints.memory_value : memory[pointer] = v
                   \/ \E d \in breakpoints.loop_depth : loop_depth = d
                   \/ \E c \in breakpoints.instruction_count : instruction_count = c - 1 )
              => /\ status' = "Paused"
                 /\ instruction_count' = instruction_count + 1
                 /\ runs'[Len(runs')].pauses = Append(runs[Len(runs)].pauses, instruction_count')
         ]_vars
    /\ [](\A i \in DOMAIN runs :
             \A c \in runs[i].breakpoints.instruction_count :
                 (runs[i].mode = "plain" /\ Fresh(runs[i])) =>
                     /\ Occurrences(runs[i].pauses, c) <= 1
                     /\ (i = Len(runs) /\ instruction_count >= c)
                            => Occurrences(runs[i].pauses, c) = 1
                     /\ (runs[i].breakpoints.memory_value = {}
                         /\ runs[i].breakpoints.loop_depth = {})
                            => \A k \in DOMAIN runs[i].pauses : runs[i].pauses[k] = c)

\* a cell-value breakpoint on 1 suspended one run three times (as in `+[[-]]`:
\* before each Loop and before the Decrement) and was resumed every time
C13_Witness ==
    /\ Len(runs) = 1
    /\ runs[1].mode = "plain"
    /\ runs[1].breakpoints.memory_value = {1}
    /\ Len(runs[1].pauses) >= 3
    /\ runs[1].outcome = "Ok"

\* C14: Breakpoint checking belongs to the dispatch core both run modes share:
\* with the same breakpoints armed, run_and_capture_output suspends before the
\* same instructions as run, that is, before every instruction for which an
\* armed predicate matches.
C14_CaptureSuspends ==
    [][ (mode = "capture" /\ status = "Running" /\ AtInstruction /\ Matches)
            => /\ status' = "Paused"
               /\ memory' = memory /\ pointer' = pointer /\ stack' = stack
      ]_vars

\* this step runs the arm of the instruction the engine stands before and the
\* arm succeeds: the instruction's effect is applied
Applies ==
    /\ status \in {"Running", "Paused", "Stepping"} /\ AtInstruction
    /\ stack' # stack
    /\ status' \notin {"Err", "Panic"}

\* C15: Single-step mode.  With step_by_step enabled, whatever the debug flag
\* and the breakpoints, the engine blocks once for every executed instruction,
\* after that instruction's effect has been applied and before the next
\* instruction is dispatched: the step that applies an effect leaves the
\* engine waiting for the acknowledgment.
C15_StepBlocksAfterEffect ==
    [][ (step_by_step /\ Applies) => status' = "Stepping" ]_vars

\* a call is in progress
InCall == status \in {"Running", "Paused", "Stepping"}
\* the record of the latest call
ThisRun == runs[Len(runs)]

\* C16: Loop depth is balanced.  The depth counter goes up by one on entry to
\* a Loop and down by one when the Loop exits, also after zero iterations, and
\* no other instruction changes it; so during a call it is the depth the call
\* found plus the number of open Loops, a completed Loop leaves it as it was
\* before the Loop, and a successful call leaves it as it found it.  In a call
\* that started from a fresh state it equals the nesting level k of the
\* instruction being executed, and it is 0 after the call succeeded.
C16_LoopDepthBalanced ==
    /\ [][ /\ (InCall /\ AtInstruction /\ Current.op = "Loop" /\ stack' # stack
               /\ status' = "Running")
                  => /\ Len(stack') = Len(stack) + 1
                     /\ loop_depth' = loop_depth + 1
           /\ (InCall /\ Len(stack') < Len(stack) /\ status' = "Running")
                  => /\ Len(stack') = Len(stack) - 1
                     /\ loop_depth' = loop_depth - 1
           /\ (InCall /\ Len(stack') = Len(stack)) => loop_depth' = loop_depth
         ]_vars
    /\ [](/\ InCall =>
                /\ loop_depth = ThisRun.start.loop_depth + Len(stack) - 1
                /\ Fresh(ThisRun) => loop_depth = Len(stack) - 1
          /\ status = "Ok" =>
                /\ loop_depth = ThisRun.start.loop_depth
                /\ Fresh(ThisRun) => loop_depth = 0)

\* `[]+` from a fresh state: the Loop was entered on a zero cell, ran no
\* iteration, and the run returned Ok with the counter back at 0
C16_Witness ==
    /\ status = "Ok"
    /\ Fresh(ThisRun)
    /\ tree = Program(<<Loop(<<>>), Increment>>)
    /\ 1 \in DOMAIN loop_iterations /\ loop_iterations[1] = 0
    /\ loop_depth = 0

\* the source text of test_nested_loops and the tree the spec says it gives
NestedLoopsText == <<"+", "[", "[", "-", "]", "]">>
NestedLoopsTree == Program(<<Increment, Loop(<<Loop(<<Decrement>>)>>)>>)

\* C17: Nested loops.  `+[[-]]` parses to Program[Increment,
\* Loop[Loop[Decrement]]]; a run of that tree from a fresh state dispatches
\* four instructions at most and, unless it is quit at a breakpoint, returns
\* Ok with cell 0 equal to 0 (the whole tape zero) and pointer 0, the outer
\* loop body having run exactly once (tally 1 at depth 1) and the inner loop
\* body exactly once (tally 1 at depth 2).
C17_NestedLoops ==
    /\ parse(tokenize(NestedLoopsText)).ok
    /\ parse(tokenize(NestedLoopsText)).node = NestedLoopsTree
    /\ \A i \in DOMAIN runs :
           (runs[i].tree = NestedLoopsTree /\ Fresh(runs[i])) =>
               /\ runs[i].outcome \in {"Running", "Ok", "Err"}
               /\ runs[i].outcome = "Err" => runs[i].error = UserTerminated
               /\ runs[i].outcome = "Ok" =>
                      runs[i].memory = NewMemory /\ runs[i].pointer = 0
               /\ (i = Len(runs) /\ (InCall \/ status \in {"Ok", "Err"})) =>
                      /\ instruction_count <= 4
                      /\ \A k \in DOMAIN stack : stack[k].loop_count <= 1
                      /\ status = "Ok" => loop_iterations = (1 :> 1 @@ 2 :> 1)

\* a plain run of the parsed `+[[-]]` from a fresh state returned Ok
C17_Witness ==
    /\ ast = parse(tokenize(NestedLoopsText)).node
    /\ status = "Ok" /\ mode = "plain"
    /\ Fresh(ThisRun)
    /\ ThisRun.tree = NestedLoopsTree
    /\ instruction_count = 4
    /\ memory[0] = 0 /\ pointer = 0
    /\ loop_iterations = (1 :> 1 @@ 2 :> 1)

\* the match of execute_instruction_capture is reached with an Input: the
\* instruction was dispatched and debug_step returned
CaptureInputArm ==
    /\ mode = "capture" /\ AtInstruction
    /\ Current.op = "Input"
    /\ \/ status = "Stepping"
       \/ status = "Running" /\ instruction_count < MaxSteps /\ debug_step_passes

\* C18: In capture mode an Input never fails and sets the cell under the
\* pointer to 0 whatever it held; the pointer, every other cell and the
\* captured output are unchanged and the run goes on with the next
\* instruction.
C18_CaptureInput ==
    [][CaptureInputArm =>
          /\ status' = "Running" /\ error' = error
          /\ memory' = [memory EXCEPT ![pointer] = 0]
          /\ pointer' = pointer
          /\ output' = output
          /\ stack' = Advance(stack)]_vars

\* a capture run of `+,` returned Ok: the Input found 1 in cell 0 and left 0
C18_Witness ==
    /\ mode = "capture" /\ status = "Ok"
    /\ Fresh(ThisRun)
    /\ ThisRun.tree = Program(<<Increment, Input>>)
    /\ instruction_count = 2
    /\ memory = NewMemory /\ pointer = 0

\* the match of execute_instruction_capture is reached with an Output
CaptureOutputArm ==
    /\ mode = "capture" /\ AtInstruction
    /\ Current.op = "Output"
    /\ \/ status = "Stepping"
       \/ status = "Running" /\ instruction_count < MaxSteps /\ debug_step_passes

\* how many Output instructions the Interpreter has recorded
OutputsExecuted ==
    IF Output \in DOMAIN instruction_counts THEN instruction_counts[Output] ELSE 0

\* C19: Capture-mode output.  A call of run_and_capture_output starts with an
\* empty output; each executed Output appends exactly one element, the value
\* of the cell under the pointer at that moment, and changes neither tape nor
\* pointer; no other step of the call adds to or changes the output; the
\* value returned on success holds that output and the final tape and
\* pointer.  Hence on a fresh Interpreter the output has one element per
\* executed Output.
C19_CaptureOutput ==
    /\ [][/\ (Len(runs') > Len(runs) /\ mode' = "capture") => output' = <<>>
          /\ CaptureOutputArm =>
                 /\ output' = Append(output, memory[pointer])
                 /\ memory' = memory /\ pointer' = pointer
                 /\ status' = "Running"
          /\ (mode = "capture" /\ InCall /\ ~CaptureOutputArm) => output' = output
          /\ (Len(results') > Len(results) /\ results'[Len(results')].outcome = "Ok") =>
                 /\ results'[Len(results')].output = output
                 /\ results'[Len(results')].memory = memory
                 /\ results'[Len(results')].pointer = pointer
                 /\ memory' = memory /\ pointer' = pointer /\ status' = "Ok"]_vars
    /\ [](/\ (runs # <<>> /\ mode = "capture" /\ Fresh(ThisRun)
                /\ (InCall \/ status \in {"Ok", "Err"})) =>
                    Len(output) = OutputsExecuted
          /\ \A i \in DOMAIN results :
                 (results[i].tree = Program(<<Output, Increment, Output>>)
                    /\ results[i].outcome = "Ok"
                    /\ \E j \in DOMAIN runs :
                           /\ runs[j].mode = "capture" /\ Fresh(runs[j])
                           /\ runs[j].tree = results[i].tree
                           /\ \A k \in DOMAIN runs : k # j => runs[k].mode = "plain") =>
                     results[i].output = <<0, 1>>)

\* a capture run of `.+.` on a fresh Interpreter returned the characters 0
\* and 1 in that order, with the final tape and pointer
C19_Witness ==
    /\ mode = "capture" /\ status = "Ok"
    /\ Fresh(ThisRun)
    /\ ThisRun.tree = Program(<<Output, Increment, Output>>)
    /\ results # <<>>
    /\ results[Len(results)].output = <<0, 1>>
    /\ results[Len(results)].memory = memory
    /\ results[Len(results)].pointer = pointer
    /\ memory[0] = 1
    /\ OutputsExecuted = 2

\* the run in progress or just ended is the first one of its Interpreter
FirstRun == runs # <<>> /\ Fresh(ThisRun) /\ (InCall \/ status \in {"Ok", "Err", "Panic"})

\* C20: Loop termination.  The `while` of a Loop goes into the body exactly
\* when the tested cell is nonzero and leaves the loop exactly when it is
\* zero, adding the iterations made to the tally of its depth.  A Loop whose
\* body leaves the tested cell zero or nonzero as it found it therefore runs
\* its body zero times or never completes: entered on a nonzero cell its run
\* never returns Ok, entered on zero it completes with tally 0.  The Loop
\* [-] entered on v never makes more than v iterations, completes with tally
\* v and cell 0, and it does complete: a running call reaches Ok unless it
\* waits for the user at a breakpoint prompt.
C20_LoopTermination ==
    /\ [][/\ (AtWhile /\ memory[pointer] # 0) =>
                 /\ stack' = [stack EXCEPT ![Len(stack)] = Frame(@.instrs, 1, @.loop_count + 1)]
                 /\ loop_iterations' = loop_iterations
                 /\ memory' = memory /\ pointer' = pointer
                 /\ status' = "Running"
          /\ (AtWhile /\ memory[pointer] = 0) =>
                 /\ Len(stack') < Len(stack)
                 /\ loop_depth \in DOMAIN loop_iterations'
                 /\ loop_iterations'[loop_depth] =
                        Top.loop_count + (IF loop_depth \in DOMAIN loop_iterations
                                          THEN loop_iterations[loop_depth] ELSE 0)
                 /\ memory' = memory /\ pointer' = pointer]_vars
    /\ [](FirstRun =>
            /\ \A v \in LoopValues, b \in KeepingBodies :
                   ThisRun.tree = KeepingTree(v, b) =>
                       /\ (AtWhile /\ Top.loop_count > 0) => memory[pointer] # 0
                       /\ v # 0 => status # "Ok"
                       /\ (v = 0 /\ status = "Ok") =>
                              loop_iterations = (1 :> 0) /\ instruction_count = 2
            /\ \A v \in LoopValues :
                   ThisRun.tree = DecrementTree(v) =>
                       /\ \A k \in DOMAIN stack : stack[k].loop_count <= v
                       /\ AtWhile => memory[0] = v - Top.loop_count
                       /\ status = "Ok" =>
                              /\ loop_iterations = (1 :> v)
                              /\ memory = NewMemory /\ pointer = 0
                              /\ instruction_count = 2 + v)
    /\ (FirstRun /\ status = "Running" /\ ThisRun.tree \in { DecrementTree(v) : v \in LoopValues })
           ~> (status \in {"Ok", "Err", "Paused"})
    /\ (FirstRun /\ status = "Running" /\ ThisRun.tree \in { DecrementTree(v) : v \in LoopValues }
          /\ breakpoints = NoBreakpoints)
           ~> (status = "Ok")

\* [-] entered on 255 completed after 255 iterations
C20_Witness ==
    /\ FirstRun /\ status = "Ok"
    /\ ThisRun.tree = DecrementTree(U8 - 1)
    /\ loop_iterations = (1 :> (U8 - 1))
    /\ instruction_count = U8 + 1
    /\ memory[0] = 0

(***************************************************************************)
(* Properties of the parser.                                               *)
(***************************************************************************)
\* every LoopEnd closes an earlier open LoopStart and no LoopStart stays open
Balanced(toks) ==
    /\ \A n \in 0..Len(toks) : bracket_depth(toks, n) >= 0
    /\ bracket_depth(toks, Len(toks)) = 0

\* C21: The parser rejects unmatched brackets.  parse returns an error for
\* every token sequence in which a LoopStart has no matching LoopEnd or a
\* LoopEnd has no matching LoopStart, and a Program for every sequence whose
\* brackets are balanced.
C21_RejectsUnmatched ==
    \A r \in parsed :
        /\ r.ok <=> Balanced(tokens)
        /\ r.ok => r.node.op = "Program"

(***************************************************************************)
(* Properties of the code generator.                                       *)
(***************************************************************************)
\* the engine applies the instruction under the `for` without failing
AppliesLeaf == InCall /\ AtInstruction /\ stack' = Advance(stack)

\* C22: The code generator emits an equivalent program.  Every instruction
\* the engine applies, Add(n) and Sub(n) included, is translated to
\* statements that leave tape and pointer as the engine leaves them, and
\* each Loop to one `while` around the translation of its body whose test
\* is the engine's: current cell nonzero.
C22_CodegenEquivalent ==
    [][/\ AppliesLeaf =>
              <<memory', pointer'>> \in
                  statements_effects(generate_instruction(Current), memory, pointer)
       /\ AtWhile =>
              LET callers == SubSeq(stack, 1, Len(stack) - 1)
                  emitted == generate_instruction(
                                 callers[Len(callers)].instrs[callers[Len(callers)].idx])
              IN  /\ Len(emitted) = 1
                  /\ emitted[1].block = generate_instructions(Top.instrs)
                  /\ while_continues(emitted[1], memory, pointer)
                         <=> Len(stack') = Len(stack)]_vars

(***************************************************************************)
(* Properties of malformed trees, debug mode, counters and tallies.        *)
(***************************************************************************)
ProgramInSequence == Program(<<Increment, Program(<<Increment>>), Increment>>)
ProgramInLoop == Program(<<Increment, Loop(<<MoveRight, Program(<<>>)>>)>>)

\* C23: Malformed trees are terminal errors.  A call of run or
\* run_and_capture_output with a root that is no Program returns an error at
\* once: tape, pointer, instruction counter and loop depth are unchanged and
\* nothing is dispatched.  At a Program node inside a sequence or loop body
\* the run does not go on: apart from a suspension or the user's quit, the
\* step fails the run with "Invalid instruction" and tape and pointer stay as
\* the earlier instructions left them.
C23_MalformedTrees ==
    /\ [][/\ (Len(runs') > Len(runs) /\ tree'.op # "Program") =>
                 /\ status' = "Err" /\ error' = "Expected program node"
                 /\ stack' = <<>>
                 /\ <<memory', pointer', instruction_count', loop_depth'>> =
                        <<runs'[Len(runs')].start.memory, runs'[Len(runs')].start.pointer,
                          runs'[Len(runs')].start.instruction_count,
                          runs'[Len(runs')].start.loop_depth>>
                 /\ instruction_counts' = instruction_counts
          /\ (InCall /\ AtInstruction /\ Current.op = "Program") =>
                 /\ memory' = memory /\ pointer' = pointer
                 /\ status' \in {"Paused", "Stepping", "Err", "Panic"}
                 /\ status' = "Err" => error' \in {"Invalid instruction", UserTerminated}
                 /\ status' \in {"Err", "Panic"} => stack' = <<>>]_vars
    /\ [](\A i \in DOMAIN runs :
             /\ runs[i].tree.op # "Program" =>
                    /\ runs[i].outcome = "Err"
                    /\ runs[i].error = "Expected program node"
                    /\ runs[i].memory = runs[i].start.memory
                    /\ runs[i].pointer = runs[i].start.pointer
             /\ (runs[i].tree \in {ProgramInSequence, ProgramInLoop} /\ Fresh(runs[i])) =>
                    /\ runs[i].outcome \in {"Running", "Err"}
                    /\ (runs[i].outcome = "Err" /\ runs[i].error # UserTerminated) =>
                           /\ runs[i].error = "Invalid instruction"
                           /\ runs[i].memory[0] = 1
                           /\ runs[i].pointer =
                                  IF runs[i].tree = ProgramInLoop THEN 1 ELSE 0)

\* a run of [Increment, Program[Increment], Increment] from a fresh state
\* failed at the inner Program: two instructions dispatched, cell 0 is 1
C23_Witness ==
    /\ runs # <<>> /\ Fresh(ThisRun)
    /\ ThisRun.tree = ProgramInSequence
    /\ status = "Err" /\ error = "Invalid instruction"
    /\ instruction_count = 2
    /\ memory[0] = 1 /\ pointer = 0

\* the cell indices get_memory_window reads around the pointer
WindowIndices == (IF pointer < 5 THEN 0 ELSE pointer - 5)..window_end(pointer, tape_size)

\* C24: Debug instrumentation is orthogonal to core semantics.  A run with
\* debug enabled ends as the same run with debug disabled, whose outcomes
\* are Ok and Err only: it never aborts; and whenever the debug window is
\* computed it only reads cell indices inside [0, tape_size).
C24_DebugOrthogonal ==
    /\ status # "Panic"
    /\ \A i \in DOMAIN runs : runs[i].outcome \in {"Running", "Ok", "Err"}
    /\ (debug /\ InCall /\ pointer \in 0..(tape_size - 1)) =>
           WindowIndices \subseteq 0..(tape_size - 1)

\* the sum of the per-kind counters
RECURSIVE SumOver(_, _)
SumOver(counts, keys) ==
    IF keys = {} THEN 0
    ELSE LET key == CHOOSE k \in keys : TRUE
         IN  counts[key] + SumOver(counts, keys \ {key})
SumOfCounts == SumOver(instruction_counts, DOMAIN instruction_counts)

\* C25: Counters.  Every dispatched instruction adds exactly one to the
\* global instruction counter and one to its per-kind counter before its
\* effect is applied, a Loop once per entry; the global counter never
\* decreases while an Interpreter lives, and in every reachable state, the
\* state after a failed instruction included, it equals the sum of the
\* per-kind counters.
C25_Counters ==
    /\ [][(InCall /\ InCall') =>
              /\ instruction_count' \in {instruction_count, instruction_count + 1}
              /\ SumOfCounts' \in {SumOfCounts, SumOfCounts + 1}]_vars
    /\ [](instruction_count = SumOfCounts)

\* how deep the loops of a sequence nest
RECURSIVE Nesting(_)
Nesting(instructions) ==
    IF instructions = <<>> THEN 0
    ELSE LET first == IF Head(instructions).op \in {"Loop", "Program"}
                      THEN 1 + Nesting(Head(instructions).body) ELSE 0
             rest == Nesting(Tail(instructions))
         IN  IF first > rest THEN first ELSE rest

\* the tally of depth d, 0 when there is none
Tally(iterations, d) == IF d \in DOMAIN iterations THEN iterations[d] ELSE 0

TwoLoops == Program(<<Increment, Loop(<<Decrement>>), Increment, Loop(<<Decrement>>)>>)

\* C26: Per-depth iteration tallies.  In a run from a fresh state a loop
\* opened at nesting depth d >= 1 counts its body iterations from 0, one per
\* iteration, and when it is left that count is added to the tally of d and
\* to no other; no other step changes a tally.  So after a successful run
\* the tally of d is the total of the iterations of all loops run at depth
\* d, summed over every re-entry: 2 for `+[-]+[-]`, 0 for a depth whose loops
\* were only entered on a zero cell, and no tally for a depth never entered.
C26_Tallies ==
    /\ [][(FirstRun /\ InCall) =>
              LET d == Len(stack) - 1 IN
              /\ (AtWhile /\ Len(stack') = Len(stack)) =>
                     /\ stack'[Len(stack)].loop_count = Top.loop_count + 1
                     /\ loop_iterations' = loop_iterations
              /\ (AtWhile /\ Len(stack') < Len(stack)) =>
                     /\ d >= 1
                     /\ DOMAIN loop_iterations' = DOMAIN loop_iterations \cup {d}
                     /\ loop_iterations'[d] = Tally(loop_iterations, d) + Top.loop_count
                     /\ \A e \in DOMAIN loop_iterations :
                            e # d => loop_iterations'[e] = loop_iterations[e]
              /\ (AtInstruction /\ Len(stack') > Len(stack)) =>
                     /\ stack'[Len(stack')].loop_count = 0
                     /\ loop_iterations' = loop_iterations
              /\ ~AtWhile => loop_iterations' = loop_iterations]_vars
    /\ [](FirstRun =>
            /\ DOMAIN loop_iterations \subseteq 1..Nesting(ThisRun.tree.body)
            /\ (status = "Ok" /\ ThisRun.tree = TwoLoops) => loop_iterations = (1 :> 2)
            /\ (status = "Ok" /\ ThisRun.tree = Program(<<Loop(<<Loop(<<>>)>>)>>)) =>
                   loop_iterations = (1 :> 0)
            /\ (status = "Ok" /\ ThisRun.tree = Program(<<Increment, Increment>>)) =>
                   loop_iterations = <<>>)

\* `+[-]+[-]` run from a fresh state returned Ok with tally 2 at depth 1: one
\* iteration from each of the two loops
C26_Witness ==
    /\ FirstRun /\ status = "Ok"
    /\ ThisRun.tree = TwoLoops
    /\ loop_iterations = (1 :> 2)
    /\ memory = NewMemory

\* no Input at any depth of the sequence
RECURSIVE InputFree(_)
InputFree(instructions) ==
    \A k \in DOMAIN instructions :
        /\ instructions[k].op # "Input"
        /\ InputFree(instructions[k].body)

\* a finished call on a fresh Interpreter with no breakpoint armed and debug off
PlainCore(r) ==
    /\ Fresh(r) /\ r.outcome # "Running"
    /\ r.breakpoints = NoBreakpoints /\ ~r.debug

\* C27: With no breakpoint armed and debug off, plain mode and capture mode
\* are the same machine on Input-free programs.  A finished run and a
\* finished run_and_capture_output of the same Input-free tree, both from
\* fresh states, have dispatched the same instructions in the same order
\* (compared over the first MaxTrace dispatches and by the instruction
\* counter) and have ended with the same outcome and error, the same tape,
\* pointer, instruction counter, loop depth and per-depth tallies, and the
\* characters plain mode wrote to the console are the capture-mode output.
C27_ModesAgree ==
    \A i, j \in DOMAIN runs :
        ( /\ runs[i].mode = "plain" /\ runs[j].mode = "capture"
          /\ runs[i].tree = runs[j].tree
          /\ InputFree(<<runs[i].tree>>)
          /\ PlainCore(runs[i]) /\ PlainCore(runs[j]) )
        => /\ runs[i].dispatched = runs[j].dispatched
           /\ runs[i].outcome = runs[j].outcome
           /\ runs[i].error = runs[j].error
           /\ runs[i].memory = runs[j].memory
           /\ runs[i].pointer = runs[j].pointer
           /\ runs[i].instruction_count = runs[j].instruction_count
           /\ runs[i].loop_depth = runs[j].loop_depth
           /\ runs[i].loop_iterations = runs[j].loop_iterations
           /\ runs[i].written = runs[j].written

\* `.+.` was run in plain mode and then, on a second fresh Interpreter, in
\* capture mode: both returned Ok after the same three dispatches, and the
\* console got the characters 0 and 1 that the capture run returned
C27_Witness ==
    /\ Len(runs) = 2
    /\ runs[1].mode = "plain" /\ runs[2].mode = "capture"
    /\ runs[1].tree = Program(<<Output, Increment, Output>>)
    /\ runs[2].tree = runs[1].tree
    /\ PlainCore(runs[1]) /\ PlainCore(runs[2])
    /\ runs[1].outcome = "Ok" /\ runs[2].outcome = "Ok"
    /\ runs[1].dispatched = <<Output, Increment, Output>>
    /\ runs[2].dispatched = <<Output, Increment, Output>>
    /\ runs[1].written = <<0, 1>> /\ runs[2].written = <<0, 1>>
    /\ runs[2].instruction_count = 3

\* every cell but the one under the pointer is as it was
OthersKept == \A i \in DOMAIN memory : i # pointer => memory'[i] = memory[i]

\* C28: Frame of each instruction.  The tape has tape_size cells in every
\* reachable state.  A step that stands before Increment, Decrement, Add, Sub
\* or Input changes at most the cell under the pointer and leaves the pointer
\* and every other cell; before MoveLeft or MoveRight it leaves the tape and
\* moves the pointer by at most one; before Output, and on entering a Loop
\* and at each test of its `while`, it changes neither tape nor pointer, so a
\* Loop entered on a zero cell is left with tape and pointer unchanged.
C28_Frames ==
    /\ [][/\ (InCall /\ AtInstruction) =>
                 /\ Current.op \in {"Increment", "Decrement", "Add", "Sub", "Input"} =>
                        pointer' = pointer /\ OthersKept
                 /\ Current.op = "MoveRight" =>
                        memory' = memory /\ pointer' \in {pointer, pointer + 1}
                 /\ Current.op = "MoveLeft" =>
                        memory' = memory /\ pointer' \in {pointer, pointer - 1}
                 /\ Current.op \in {"Output", "Loop", "Program"} =>
                        memory' = memory /\ pointer' = pointer
          /\ AtWhile => memory' = memory /\ pointer' = pointer
          /\ (AtWhile /\ Top.loop_count = 0 /\ memory[pointer] = 0) =>
                 Len(stack') < Len(stack)
          /\ InCall => DOMAIN memory' = DOMAIN memory /\ tape_size' = tape_size]_vars
    /\ [](/\ DOMAIN memory = 0..(tape_size - 1)
          /\ tape_size = DEFAULT_TAPE_SIZE
          /\ \A i \in DOMAIN memory : memory[i] \in 0..(U8 - 1))

\* `++>--` returned Ok in capture mode: the two Decrements at cell 1 left the
\* 2 in cell 0, the MoveRight left the tape
C28_Witness ==
    /\ runs # <<>> /\ Fresh(ThisRun) /\ mode = "capture" /\ status = "Ok"
    /\ ThisRun.tree = Program(<<Increment, Increment, MoveRight, Decrement, Decrement>>)
    /\ memory = [NewMemory EXCEPT ![0] = 2, ![1] = U8 - 2]
    /\ pointer = 1
    /\ DOMAIN memory = 0..(tape_size - 1)

(***************************************************************************)
(* The parsed tree written back out.                                       *)
(***************************************************************************)
\* the token of a node that is no Loop
TokenOf(node) ==
    CASE node.op = "Increment" -> "Increment"
      [] node.op = "Decrement" -> "Decrement"
      [] node.op = "MoveRight" -> "IncrementPtr"
      [] node.op = "MoveLeft" -> "DecrementPtr"
      [] node.op = "Input" -> "Input"
      [] node.op = "Output" -> "Output"

\* the instructions in order, each Loop as LoopStart, its body, LoopEnd
RECURSIVE Unparse(_)
Unparse(instructions) ==
    IF instructions = <<>> THEN <<>>
    ELSE LET node == Head(instructions)
         IN  (IF node.op = "Loop"
              THEN <<"LoopStart">> \o Unparse(node.body) \o <<"LoopEnd">>
              ELSE <<TokenOf(node)>>)
             \o Unparse(Tail(instructions))

\* C29: Parsing loses no instruction.  Whenever parse succeeds, the tree it
\* returns written back out in order is exactly the whole token sequence it
\* was given: every token was consumed and none after a LoopEnd was dropped.
C29_ParseLosesNothing ==
    \A r \in parsed :
        r.ok => /\ r.position = Len(tokens)
                /\ Unparse(r.node.body) = tokens

====
